---- MODULE Spec2Model ----
(***************************************************************************)
(* Paging / address-space core of MentOS (mentos/src/mem/paging.c).        *)
(*                                                                         *)
(* Addresses and sizes are counted in 4-byte words, so that the whole      *)
(* 32-bit address space (2^30 words) and sums of two addresses fit the     *)
(* integers of the model checker: PAGE_SIZE is 1024 words (4096 bytes),    *)
(* and unsigned 32-bit arithmetic is arithmetic modulo AddrSpace.          *)
(* Page and frame numbers are the real ones (address / PAGE_SIZE).         *)
(***************************************************************************)
EXTENDS Integers, Sequences, FiniteSets, TLC

\* ------------------------------------------------------------------ bounds
\* Number of process address spaces (mm_struct) besides the kernel's.
MaxMM == 2
\* Number of page frames of the user zone the page-frame allocator owns.
NFrames == 5
\* Largest byte value a page holds (a page's contents is one value).
MaxVal == 1
\* Number of kernel entries (system calls, faults, ...) explored per run.
MaxOps == 2
\* Number of pages below the stack that mmap without hint may reach.
HighSpan == 3

\* --------------------------------------------------------------- constants
\* 4096 bytes, in words.
PAGE_SIZE == 1024
\* 2^32 bytes, in words: the modulus of uint32_t / uintptr_t arithmetic.
AddrSpace == 2 ^ 30
\* 0xC0000000, in words: end of the user area, start of kernel low memory.
PROCAREA_END_ADDR == 3 * (2 ^ 28)
\* Entries of a page table / page directory.
TableEntries == 2 ^ 10

U32(x) == x % AddrSpace

MMIds == 1 .. MaxMM
Frames == 1 .. NFrames
Vals == 0 .. MaxVal

\* memory-map flags (enum MEMMAP_FLAGS), as a set of names
MM_USER == "USER"
MM_GLOBAL == "GLOBAL"
MM_RW == "RW"
MM_PRESENT == "PRESENT"
MM_COW == "COW"
MM_UPDADDR == "UPDADDR"

\* ------------------------------------------------------------- the inputs
\* 0x50000000, in words: the hint of the mmap scenario.
HintBase == 5 * (2 ^ 26)
\* addr arguments of sys_mmap / sys_munmap (0 is NULL) and of create_vm_area
HintAddrs == {HintBase, HintBase + PAGE_SIZE}
\* length arguments
Lengths == {PAGE_SIZE, 3 * PAGE_SIZE}
\* the sizes a caller may pass: the lengths above and the empty range
Sizes == {0} \cup Lengths
\* stack_size arguments of create_blank_process_image
StackSizes == {PAGE_SIZE}
\* how the tasks touch memory: <<user mode, write>>
AccessModes == {<<TRUE, FALSE>>, <<TRUE, TRUE>>, <<FALSE, FALSE>>}

PfnOf(addr) == addr \div PAGE_SIZE
PdiOf(vpn) == vpn \div TableEntries

\* The virtual pages of the user area the inputs can touch.
LowPages == PfnOf(HintBase) .. (PfnOf(HintBase) + 3)
HighPages == (PfnOf(PROCAREA_END_ADDR) - 1 - HighSpan) .. (PfnOf(PROCAREA_END_ADDR) - 1)
\* the last page of the page table below the hint's
CrossPages == {PfnOf(HintBase) - 1}
VPages == LowPages \cup HighPages \cup CrossPages
\* the pages the tasks touch: in and around the areas
AccessPages == {PfnOf(HintBase), PfnOf(HintBase) + 1, PfnOf(PROCAREA_END_ADDR) - 1, PfnOf(PROCAREA_END_ADDR) - 2}
KernelPdi == PdiOf(PfnOf(PROCAREA_END_ADDR))
\* The page of the transient-mapping window (virt_map_*), in kernel space.
WinVpn == (KernelPdi + 1) * TableEntries
Pdis == {PdiOf(v) : v \in VPages} \cup {KernelPdi, PdiOf(WinVpn)}

\* ------------------------------------------------- page-table entry words
\* A page_table_entry_t is a 32-bit word: the 20-bit frame number above the
\* 12 low bits.  Bit positions of the fields the kernel reads or writes.
BitPos == [present |-> 0, rw |-> 1, user |-> 2, global |-> 8, available |-> 9, kernel_cow |-> 11]

Bit(lo, k) == (lo \div (2 ^ k)) % 2
Get(e, f) == Bit(e.lo, BitPos[f])
Set(e, f, v) == [e EXCEPT !.lo = e.lo - Bit(e.lo, BitPos[f]) * (2 ^ BitPos[f]) + v * (2 ^ BitPos[f])]
\* the two-bit field `available`
SetAvailable(e, v) ==
    LET lo0 == e.lo - Bit(e.lo, 9) * (2 ^ 9) - Bit(e.lo, 10) * (2 ^ 10)
    IN  [e EXCEPT !.lo = lo0 + v * (2 ^ 9)]
B(flags, f) == IF f \in flags THEN 1 ELSE 0

ZeroPte == [frame |-> 0, lo |-> 0]
ZeroPde == [present |-> 0, rw |-> 0, user |-> 0, global |-> 0, accessed |-> 0, available |-> 0, frame |-> 0]

\* Physical frame of the page table of directory slot pdi of address space m
\* (what kmem_cache_alloc(pgtbl_cache) hands out), and the page of its
\* low-memory virtual address.
TablePhysPfn(m, pdi) == 4096 + m * TableEntries + pdi
TableVirtPfn(m, pdi) == PfnOf(PROCAREA_END_ADDR) + TablePhysPfn(m, pdi)

\* (uint32_t)&table->pages[vpn % 1024] read as an entry word.
EntryPtr(m, vpn) == [frame |-> TableVirtPfn(m, PdiOf(vpn)), lo |-> 4 * (vpn % TableEntries)]

\* __set_pg_table_flags
set_pg_table_flags(e, flags) ==
    LET e1 == Set(e, "rw", B(flags, MM_RW))
        e2 == Set(e1, "present", B(flags, MM_PRESENT))
        e3 == Set(e2, "kernel_cow", B(flags, MM_COW))
        e4 == SetAvailable(e3, 1)
        e5 == Set(e4, "global", B(flags, MM_GLOBAL))
    IN  Set(e5, "user", B(flags, MM_USER))

\* ------------------------------------------------------- kernel state
VARIABLES
    mm,      \* mm_struct of each address space: live, mmap_list, map_count, total_vm, mmap_cache, start_stack
    pde,     \* page directory of each address space
    pte,     \* page-table entries of each address space, by virtual page
    frames,  \* page descriptors of the user zone: page_count, bbpage.order, contents, allocated
    cur,     \* address space of the task that ran last = current page directory (0: the kernel's)
    status,  \* "running" or "panic" (kernel_panic does not return)
    wild,    \* a page descriptor outside the user zone was freed, decremented or copied from
    tlb,     \* virtual pages invalidated (invlpg) by the last kernel entry
    last,    \* the last kernel entry: what was called, on what, and how it ended
    shadow,  \* what each page of each address space should read as: 0 when mapped, then the last
             \* value written through that address space (a clone starts with the source's)
    cowed,   \* the pages <<mm, page>> of the areas clone_vm_area cloned copy-on-write, both sides
    nops     \* kernel entries so far

\* The memory manager (paging.c).
pagingVars == <<mm, pde, pte, frames, cur, status, wild, tlb, last, shadow, cowed, nops>>

VARIABLES
    frame,      \* pt_regs of the interrupted task: eax, ebx
    sc_index,   \* the index the last entry of syscall_handler read from eax
    invoked,    \* the calls made through sys_call_table, in order
    scheduled   \* the eax of the frame at each call of scheduler_run, in order

\* The system-call entry (syscall.c).
syscallVars == <<frame, sc_index, invoked, scheduled>>

\* syscall_init: the table is filled, nothing was called.
SyscallBoot ==
    /\ frame = [eax |-> 0, ebx |-> 0]
    /\ sc_index = 0
    /\ invoked = <<>>
    /\ scheduled = <<>>

VARIABLES
    fs_files,   \* fs.files: the devfs_file_t nodes in list order: name, inode, flags, files
    fs_nfiles,  \* fs.nfiles
    vfs,        \* the objects of vfs_file_cache: used, name, ino
    errno,      \* errno
    dstatus,    \* "running", or "fault" once the kernel dereferenced a null pointer
    dlast       \* the last call into devfs: what was called, on what, what it returned

\* The device file system (devfs.c).
devfsVars == <<fs_files, fs_nfiles, vfs, errno, dstatus, dlast>>

\* dirent.h: the types a node's flags hold.
DT_DIR == 4
DT_REG == 8

MaxVfs == 2
MaxDevOps == 3
VfsIds == 1 .. MaxVfs
NoVfs == [used |-> FALSE, name |-> "", ino |-> 0]

\* dir_entry.fs_operations of a node: NULL, or the table a driver installed
\* with the functions it supplies.
NullOps == [null |-> TRUE, fns |-> {}]
DriverTables == {NullOps, [null |-> FALSE, fns |-> {"read_f", "ioctl_f"}]}
DriverRets == {0, 1}

\* the record of a call into devfs; reg0, busy0 and nfiles0: whether the path
\* named a regular node, whether that node had open files, and fs.nfiles,
\* all on entry; found0: whether the path named a node on entry; flags: the
\* flags of devfs_open; hasop: whether the node's driver supplies the
\* operation called; driver: whether a driver function was called; gone: the
\* names devfs_destroy_entry removed that no node has had since; seq counts the
\* calls so far.
DLast(op, path, ret, reg0, busy0, nfiles0) ==
    [op |-> op, path |-> path, ret |-> ret, reg0 |-> reg0, busy0 |-> busy0, nfiles0 |-> nfiles0,
     found0 |-> \E i \in 1 .. Len(fs_files) : fs_files[i].name = path,
     flags |-> {},
     hasop |-> FALSE, driver |-> FALSE,
     gone |-> {},
     seq |-> 0]

\* devfs_module_init, then devfs_mount_callback("/dev", ...): the root
\* directory exists and its vfs_file is open.
DevfsBoot ==
    /\ fs_files = <<[name |-> "/dev", inode |-> 1, flags |-> DT_DIR, files |-> <<1>>, fs_operations |-> NullOps]>>
    /\ fs_nfiles = 1
    /\ vfs = [i \in VfsIds |-> IF i = 1 THEN [used |-> TRUE, name |-> "/dev", ino |-> 1] ELSE NoVfs]
    /\ errno = 0
    /\ dstatus = "running"
    /\ dlast = DLast("mount", "/dev", 1, FALSE, FALSE, 0)

\* The same, then a driver's devfs_create_entry("/dev/a") during boot.
DevfsBoot2 ==
    /\ fs_files = <<[name |-> "/dev", inode |-> 1, flags |-> DT_DIR, files |-> <<1>>, fs_operations |-> NullOps],
                    [name |-> "/dev/a", inode |-> 2, flags |-> DT_REG, files |-> <<>>, fs_operations |-> NullOps]>>
    /\ fs_nfiles = 2
    /\ vfs = [i \in VfsIds |-> IF i = 1 THEN [used |-> TRUE, name |-> "/dev", ino |-> 1] ELSE NoVfs]
    /\ errno = 0
    /\ dstatus = "running"
    /\ dlast = DLast("devfs_create_entry", "/dev/a", 1, FALSE, FALSE, 1)

VARIABLES
    dpi         \* the call of destroy_process_image in progress: where it stands, on what, what it did

\* destroy_process_image, one iteration of its loop at a time.
destroyVars == <<dpi>>

\* No call of destroy_process_image is in progress.
DpiIdle == [pc |-> "idle", m |-> 0, n0 |-> 0, calls |-> 0, exit_len |-> 0, exit_count |-> 0]

vars == <<mm, pde, pte, frames, cur, status, wild, tlb, last, shadow, cowed, nops,
          frame, sc_index, invoked, scheduled,
          fs_files, fs_nfiles, vfs, errno, dstatus, dlast, dpi>>

\* A vm_area_struct: its slab object (id) and its range.
Vma(id, s, e) == [id |-> id, vm_start |-> s, vm_end |-> e]

BlankMM == [live |-> FALSE, mmap_list |-> <<>>, map_count |-> 0, total_vm |-> 0, mmap_cache |-> 0, start_stack |-> 0]

\* The kernel's page directory (main_mm->pgd): kernel low memory is mapped
\* global, the user area is empty.
MainPgd == [d \in Pdis |-> IF d >= KernelPdi
                           THEN [ZeroPde EXCEPT !.present = 1, !.rw = 1, !.global = 1, !.available = 1, !.frame = TablePhysPfn(0, d)]
                           ELSE ZeroPde]

FreeFrame == [count |-> 0, order |-> 0, val |-> 0, used |-> FALSE]

\* The state the operations thread through: the variables they change, and
\* whether the operation ran into kernel_panic or into an empty allocator.
KState == [mm |-> mm, pde |-> pde, pte |-> pte, frames |-> frames, wild |-> wild,
           tlb |-> {}, win |-> ZeroPte, panic |-> FALSE, oom |-> FALSE, np |-> 0]

\* ------------------------------------------------- page-frame allocator
Pow2(n) == 2 ^ n

\* find_nearest_order_greater(base_addr, amount): the smallest order whose
\* block covers the pages of [base_addr, base_addr + amount).
NPagesOf(base, amount) == PfnOf(U32(base + amount + PAGE_SIZE - 1)) - PfnOf(base)
find_nearest_order_greater(base, amount) ==
    CHOOSE o \in 0 .. 20 : /\ Pow2(o) >= NPagesOf(base, amount)
                           /\ \A o2 \in 0 .. (o - 1) : Pow2(o2) < NPagesOf(base, amount)

\* Buddy blocks of 2^order frames, aligned in the zone.
BlockOf(f, order) == f .. (f + Pow2(order) - 1)
FreeBlocks(fr, order) ==
    {f \in Frames : /\ (f - 1) % Pow2(order) = 0
                    /\ BlockOf(f, order) \subseteq Frames
                    /\ \A g \in BlockOf(f, order) : ~fr[g].used}

\* What get_physical_address_from_page makes of the null pointer, as a frame
\* number: a frame outside the user zone or one inside it.
NullPhys == {0, 1}

\* _alloc_pages(gfp, order): the first frame of the block, 0 when none is left.
AllocBase(fr, order) ==
    LET First(blocks) == IF blocks = {} THEN 0 ELSE CHOOSE f \in blocks : \A g \in blocks : f <= g
    IN  First(FreeBlocks(fr, order))

alloc_pages(K, order) ==
    LET f == AllocBase(K.frames, order) IN
    IF f = 0 THEN [K |-> [K EXCEPT !.oom = TRUE], page |-> K.np]
    ELSE [K |-> [K EXCEPT !.frames = [g \in Frames |->
                    IF g \in BlockOf(f, order)
                    THEN [@[g] EXCEPT !.used = TRUE, !.count = 1, !.order = IF g = f THEN order ELSE 0]
                    ELSE @[g]]],
          page |-> f]

\* page_count / bbpage.order of the descriptor mem_map + pfn; junk is what a
\* descriptor outside the user zone happens to hold.
page_count(K, pfn, junk) == IF pfn \in Frames THEN K.frames[pfn].count ELSE junk.count
page_order(K, pfn, junk) == IF pfn \in Frames THEN K.frames[pfn].order ELSE junk.order

\* __free_pages(page): the whole block goes back to the allocator.
free_pages(K, pfn, junk) ==
    IF pfn \in Frames /\ K.frames[pfn].used
    THEN [K EXCEPT !.frames = [g \in Frames |->
             IF g \in BlockOf(pfn, K.frames[pfn].order)
             THEN [@[g] EXCEPT !.used = FALSE, !.count = 0]
             ELSE @[g]]]
    ELSE [K EXCEPT !.wild = TRUE]

\* page_dec on the 2^order descriptors from pfn.
page_dec_block(K, pfn, junk) ==
    IF pfn \in Frames
    THEN [K EXCEPT !.frames = [g \in Frames |->
             IF g \in BlockOf(pfn, K.frames[pfn].order)
             THEN [@[g] EXCEPT !.count = IF @ > 0 THEN @ - 1 ELSE 0]
             ELSE @[g]]]
    ELSE [K EXCEPT !.wild = TRUE]

\* --------------------------------------------------------- the VMA list
RECURSIVE InsertSorted(_, _)
InsertSorted(seq, a) ==
    IF seq = <<>> THEN <<a>>
    ELSE IF a.vm_start < Head(seq).vm_start THEN <<a>> \o seq
    ELSE <<Head(seq)>> \o InsertSorted(Tail(seq), a)

\* list_head_sort(&mm->mmap_list, vm_area_compare): ascending vm_start.
RECURSIVE list_head_sort(_)
list_head_sort(seq) ==
    IF seq = <<>> THEN <<>>
    ELSE InsertSorted(list_head_sort(Tail(seq)), Head(seq))

\* list_head_insert_after(&segment->vm_list, &mm->mmap_list): right after the head.
list_head_insert_after(a, seq) == <<a>> \o seq

\* list_head_remove(&area->vm_list): the element at position k.
list_head_remove(seq, k) == [i \in 1 .. (Len(seq) - 1) |-> IF i < k THEN seq[i] ELSE seq[i + 1]]

\* kmem_cache_alloc(vm_area_cache): a slab object no live vm_area_struct uses.
LiveVmaIds(K) == UNION {{K.mm[m].mmap_list[i].id : i \in 1 .. Len(K.mm[m].mmap_list)} : m \in MMIds}
NewVmaId(K) == CHOOSE n \in 1 .. (Cardinality(LiveVmaIds(K)) + 1) : n \notin LiveVmaIds(K) /\ \A k \in 1 .. (n - 1) : k \in LiveVmaIds(K)

\* is_valid_vm_area(mm, vm_start, vm_end)
AreaBlocks(a, vm_start, vm_end) ==
    \/ (vm_start > a.vm_start) /\ (vm_start < a.vm_end)
    \/ (vm_end > a.vm_start) /\ (vm_end < a.vm_end)
    \/ (vm_start < a.vm_start) /\ (vm_end > a.vm_end)
is_valid_vm_area(list, vm_start, vm_end) ==
    IF vm_end <= vm_start THEN -1
    ELSE IF \E i \in 1 .. Len(list) : AreaBlocks(list[i], vm_start, vm_end) THEN 0
    ELSE 1

\* find_free_vm_area(mm, length, &vm_start): walks the list from its tail;
\* result 0 with the address, or 1.
FreeGapAt(list, i, length) ==
    /\ i > 1
    /\ U32(list[i].vm_start - list[i - 1].vm_end + AddrSpace) >= length
find_free_vm_area(list, length) ==
    LET hits == {i \in 1 .. Len(list) : FreeGapAt(list, i, length)} IN
    IF hits = {} THEN [ret |-> 1, vm_start |-> 0]
    ELSE LET i == CHOOSE j \in hits : \A k \in hits : k <= j
         IN  [ret |-> 0, vm_start |-> U32(list[i].vm_start - length + AddrSpace)]

\* find_vm_area / the lookup of sys_munmap: last position first.
LastMatch(list, P(_)) ==
    LET hits == {i \in 1 .. Len(list) : P(list[i])} IN
    IF hits = {} THEN 0 ELSE CHOOSE j \in hits : \A k \in hits : k <= j

\* ------------------------------------------------------- page tables
Min(a, b) == IF a < b THEN a ELSE b

\* __pg_iter_init / __pg_iter_next: the pages first_pfn .. last_pfn - 1, and
\* the directory slots whose table the iterator looks up or allocates.
\* __pg_iter_next, repeated while __pg_iter_has_next: entry is the index of
\* the directory entry the iterator points at, table the directory slot whose
\* page table it holds.  Yields the pages whose entries come out.
RECURSIVE pg_iter_next_same_table(_, _, _, _)
pg_iter_next_same_table(pfn, last_pfn, entry, table) ==
    IF ~(pfn < last_pfn) THEN <<>>
    ELSE <<table * TableEntries + (pfn % TableEntries)>> \o pg_iter_next_same_table(pfn + 1, last_pfn, entry, table)

RECURSIVE pg_iter_next(_, _, _, _)
pg_iter_next(pfn, last_pfn, entry, table) ==
    IF ~(pfn < last_pfn) THEN <<>>
    ELSE LET advance == (pfn + 1) % TableEntries = 0 /\ pfn + 1 # last_pfn
             switch == advance /\ (entry + 1) % TableEntries # 0
         IN  <<table * TableEntries + (pfn % TableEntries)>>
                 \o pg_iter_next(pfn + 1, last_pfn, IF advance THEN entry + 1 ELSE entry,
                                 IF switch THEN entry + 1 ELSE table)

\* __pg_iter_init, then the iteration.
pg_iter(addr_start, size) ==
    pg_iter_next(PfnOf(addr_start), PfnOf(U32(addr_start + size + PAGE_SIZE - 1)),
                 PdiOf(PfnOf(addr_start)), PdiOf(PfnOf(addr_start)))

IterPages(addr_start, size) == {pg_iter(addr_start, size)[i] : i \in 1 .. Len(pg_iter(addr_start, size))}
IterDirs(addr_start, size) == {PdiOf(PfnOf(addr_start))} \cup {PdiOf(p) : p \in IterPages(addr_start, size)}

\* __mem_pg_entry_alloc followed by __set_pg_entry_frame, on one directory entry.
mem_pg_entry_alloc(entry, flags, m, d) ==
    IF entry.present = 0
    THEN [entry EXCEPT !.present = 1, !.rw = 1, !.global = B(flags, MM_GLOBAL), !.user = B(flags, MM_USER),
                       !.accessed = 0, !.available = 1, !.frame = TablePhysPfn(m, d)]
    ELSE [entry EXCEPT !.rw = IF @ = 1 \/ MM_RW \in flags THEN 1 ELSE 0,
                       !.global = IF @ = 1 /\ MM_GLOBAL \in flags THEN 1 ELSE 0,
                       !.user = IF @ = 1 \/ MM_USER \in flags THEN 1 ELSE 0]

\* the directory side of an iteration; the assert on the global flag panics
pg_iter_dirs(K, m, addr_start, size, flags) ==
    LET dirs == IterDirs(addr_start, size) IN
    [K EXCEPT !.pde[m] = [d \in Pdis |-> IF d \in dirs THEN mem_pg_entry_alloc(@[d], flags, m, d) ELSE @[d]],
              !.panic = @ \/ \E d \in dirs : K.pde[m][d].present = 1 /\ K.pde[m][d].global = 1 /\ MM_GLOBAL \notin flags]

\* mem_upd_vm_area(pgd, virt_start, phy_start, size, flags)
mem_upd_vm_area(K, m, virt_start, phy_start, size, flags) ==
    LET K1 == pg_iter_dirs(K, m, virt_start, size, flags)
        pages == IterPages(virt_start, size)
        first == PfnOf(virt_start)
    IN  [K1 EXCEPT !.pte[m] = [v \in VPages |->
                        IF v \in pages
                        THEN set_pg_table_flags(IF MM_UPDADDR \in flags
                                                THEN [@[v] EXCEPT !.frame = PfnOf(phy_start) + (v - first)]
                                                ELSE @[v], flags)
                        ELSE @[v]],
                   !.tlb = IF MM_UPDADDR \in flags THEN @ \cup pages ELSE @]

\* mem_clone_vm_area(src_pgd, dst_pgd, src_start, dst_start, size, flags)
mem_clone_vm_area(K, s, d, src_start, dst_start, size, flags) ==
    LET off == PfnOf(dst_start) - PfnOf(src_start)
        srcp == IterPages(src_start, size)
        dstp == IterPages(dst_start, size)
        Entries(K2) ==
            [K2 EXCEPT !.pte[d] = [v \in VPages |->
                        IF v \in dstp /\ (v - off) \in srcp
                        THEN IF Get(K2.pte[s][v - off], "kernel_cow") = 1
                             THEN Set(EntryPtr(s, v - off), "present", 0)
                             ELSE set_pg_table_flags([@[v] EXCEPT !.frame = K2.pte[s][v - off].frame], flags)
                        ELSE @[v]],
                   !.tlb = @ \cup dstp]
    IN  Entries(pg_iter_dirs(pg_iter_dirs(K, s, src_start, size, flags), d, dst_start, size, flags))

\* ----------------------------------------------------------- page faults
\* __page_handle_cow without the memset of the new page.
page_handle_cow_no_memset(K, m, v) ==
    LET entry == K.pte[m][v] IN
    IF Get(entry, "kernel_cow") = 1
    THEN LET e1 == Set(entry, "kernel_cow", 0) IN
         IF Get(e1, "present") = 0
         THEN LET Mapped(a) == [K |-> [a.K EXCEPT !.pte[m][v] = Set([e1 EXCEPT !.frame = a.page], "present", 1)],
                                ret |-> 0]
              IN  Mapped(alloc_pages(K, 0))
         ELSE [K |-> [K EXCEPT !.pte[m][v] = e1], ret |-> 1]
    ELSE [K |-> K, ret |-> 1]

\* __page_handle_cow(entry), on the entry of page v of address space m.
page_handle_cow(K, m, v) ==
    LET entry == K.pte[m][v] IN
    IF Get(entry, "kernel_cow") = 1
    THEN LET e1 == Set(entry, "kernel_cow", 0) IN
         IF Get(e1, "present") = 0
         THEN LET Zeroed(a) ==
                      [K |-> [a.K EXCEPT !.frames = IF a.page = 0 THEN @ ELSE [@ EXCEPT ![a.page].val = 0],
                                         !.pte[m][v] = Set([e1 EXCEPT !.frame = a.page], "present", 1)],
                       ret |-> 0]
              IN  Zeroed(alloc_pages(K, 0))
         ELSE [K |-> [K EXCEPT !.pte[m][v] = e1], ret |-> 1]
    ELSE [K |-> K, ret |-> 1]

\* virtual_check_address(addr): the address lies in the transient-mapping window.
virtual_check_address(v) == v = WinVpn

\* The entry a window entry points to: (page_table_entry_t *)(*(uint32_t *)entry).
PtrTarget(w) == CHOOSE t \in MMIds \X VPages : EntryPtr(t[1], t[2]).frame = w.frame /\ EntryPtr(t[1], t[2]).lo = w.lo

\* The branch below with the condition of the page-table branch
\* (err_user && err_rw && err_present) in its place.
fault_without_table_needs_present(K, err, task) ==
    IF err.user /\ err.rw /\ err.present /\ task # 0
    THEN [K |-> K, out |-> "sigsegv"]
    ELSE [K |-> [K EXCEPT !.panic = TRUE], out |-> "panic"]

\* page_fault_handler when the directory entry is not present: SIGSEGV to the
\* current task for a user fault, else __page_fault_panic.
fault_without_table(K, err, task) ==
    IF err.user /\ task # 0
    THEN [K |-> K, out |-> "sigsegv"]
    ELSE [K |-> [K EXCEPT !.panic = TRUE], out |-> "panic"]

\* page_fault_handler(f): cr2 = page v, the current directory is c's, task is
\* the current process (0: none).  out is how the handler ends.
page_fault_handler(K, c, v, err, task) ==
    LET dir == IF c = 0 THEN MainPgd ELSE K.pde[c]
        direntry == dir[PdiOf(v)]
    IN
    IF direntry.present = 0
    THEN fault_without_table(K, err, task)
    ELSE IF virtual_check_address(v)
    THEN LET Window(orig, r) ==
                 IF r.ret # 0
                 THEN [K |-> [r.K EXCEPT !.panic = TRUE], out |-> "panic"]
                 ELSE [K |-> [r.K EXCEPT !.win = set_pg_table_flags([@ EXCEPT !.frame = r.K.pte[orig[1]][orig[2]].frame],
                                                                   {MM_PRESENT, MM_RW, MM_GLOBAL, MM_COW, MM_UPDADDR}),
                                         !.tlb = @ \cup {v}],
                       out |-> "resolved"]
             Orig(orig) == Window(orig, page_handle_cow(K, orig[1], orig[2]))
         IN  Orig(PtrTarget(K.win))
    ELSE LET Direct(r) ==
                 IF r.ret # 0
                 THEN IF err.user /\ err.rw /\ err.present /\ task # 0
                      THEN [K |-> r.K, out |-> "sigsegv"]
                      ELSE [K |-> [r.K EXCEPT !.panic = TRUE], out |-> "panic"]
                 ELSE [K |-> [r.K EXCEPT !.tlb = @ \cup {v}], out |-> "resolved"]
         IN  Direct(page_handle_cow(K, c, v))

\* ------------------------------------------------------ transient copies
\* The window entry virt_map_vaddr makes for page v of address space m
\* (mem_clone_vm_area into the kernel's directory).
WindowEntry(K, m, v) ==
    IF Get(K.pte[m][v], "kernel_cow") = 1
    THEN Set(EntryPtr(m, v), "present", 0)
    ELSE set_pg_table_flags([ZeroPte EXCEPT !.frame = K.pte[m][v].frame], {MM_PRESENT, MM_RW, MM_GLOBAL, MM_UPDADDR})

\* The kernel touches page v of address space m through the window: a window
\* entry that is not present faults (kernel mode, page not present).
WindowTouch(K, m, v, c, write) ==
    LET Touch(K1) ==
            IF Get(K1.win, "present") = 1 THEN K1
            ELSE page_fault_handler(K1, c, WinVpn, [user |-> FALSE, rw |-> write, present |-> FALSE], c).K
    IN  Touch([K EXCEPT !.win = WindowEntry(K, m, v)])

\* virt_memcpy(dst_mm, dst_vaddr, src_mm, src_vaddr, size), page after page.
RECURSIVE virt_memcpy_from(_, _, _, _, _, _)
virt_memcpy_from(K, d, s, v, lastv, c) ==
    IF v > lastv \/ K.panic \/ K.oom THEN K
    ELSE LET Copy(K2, srcf, dstf) ==
                 IF K2.panic \/ K2.oom THEN K2
                 ELSE IF srcf \in Frames /\ dstf \in Frames
                 THEN [K2 EXCEPT !.frames[dstf].val = K2.frames[srcf].val]
                 ELSE [K2 EXCEPT !.wild = TRUE]
             MapDst(K2, srcf) == Copy(K2, srcf, K2.win.frame)
             MapSrc(K1) ==
                 IF K1.panic \/ K1.oom THEN K1
                 ELSE MapDst(WindowTouch(K1, d, v, c, TRUE), K1.win.frame)
         IN  virt_memcpy_from(MapSrc(WindowTouch(K, s, v, c, FALSE)), d, s, v + 1, lastv, c)

virt_memcpy(K, d, s, vaddr, size, c) ==
    virt_memcpy_from(K, d, s, PfnOf(vaddr), PfnOf(U32(vaddr + size + PAGE_SIZE - 1)) - 1, c)

\* ------------------------------------------------------------ vm areas
\* create_vm_area(mm, vm_start, size, pgflags, gfpflags)
create_vm_area(K, m, vm_start, size, pgflags) ==
    LET vm_end == U32(vm_start + size) IN
    IF is_valid_vm_area(K.mm[m].mmap_list, vm_start, vm_end) <= 0
    THEN [K EXCEPT !.panic = TRUE]
    ELSE LET id == NewVmaId(K)
             order == find_nearest_order_greater(vm_start, size)
             cow == MM_COW \in pgflags
             flags == IF cow THEN pgflags \ {MM_PRESENT, MM_UPDADDR} ELSE pgflags \cup {MM_UPDADDR}
             Update(a) == mem_upd_vm_area(a.K, m, vm_start, a.page * PAGE_SIZE, size, flags)
             Link(K1) ==
             [K1 EXCEPT !.mm[m].mmap_list = list_head_sort(list_head_insert_after(Vma(id, vm_start, vm_end), @)),
                        !.mm[m].mmap_cache = id,
                        !.mm[m].map_count = @ + 1,
                        !.mm[m].total_vm = @ + Pow2(order)]
         IN  Link(Update(IF cow THEN [K |-> K, page |-> 0] ELSE alloc_pages(K, order)))

\* clone_vm_area(mm, area, cow, gfpflags); s is area->vm_mm, c the current directory.
clone_vm_area(K, d, s, area, cow, c) ==
    LET id == NewVmaId(K)
        size == area.vm_end - area.vm_start
        order == find_nearest_order_greater(area.vm_start, size)
        Eager(a) == virt_memcpy(mem_upd_vm_area(a.K, d, area.vm_start, a.page * PAGE_SIZE, size,
                                                {MM_RW, MM_PRESENT, MM_UPDADDR, MM_USER}),
                                d, s, area.vm_start, size, c)
        Lazy == mem_clone_vm_area(mem_upd_vm_area(K, s, area.vm_start, 0, size, {MM_COW, MM_PRESENT, MM_USER}),
                                  s, d, area.vm_start, area.vm_start, size,
                                  {MM_COW, MM_PRESENT, MM_UPDADDR, MM_USER})
        Link(K2) ==
            IF K2.panic THEN K2
            ELSE [K2 EXCEPT !.mm[d].mmap_list = list_head_insert_after(Vma(id, area.vm_start, area.vm_end), @),
                            !.mm[d].mmap_cache = id,
                            !.mm[d].map_count = @ + 1,
                            !.mm[d].total_vm = @ + Pow2(order)]
    IN  Link(IF cow = 0 THEN Eager(alloc_pages(K, order)) ELSE Lazy)

\* The loop of destroy_vm_area: mem_virtual_to_page, then the block is freed
\* or, when its page_count is above 1, decremented.
RECURSIVE destroy_vm_loop(_, _, _, _, _)
destroy_vm_loop(K, m, area_start, area_total_size, junk) ==
    IF area_total_size <= 0 THEN K
    ELSE LET pfn == K.pte[m][PfnOf(area_start)].frame
             area_size == Min(area_total_size, Pow2(page_order(K, pfn, junk)) * PAGE_SIZE)
             K1 == IF page_count(K, pfn, junk) > 1
                   THEN page_dec_block(K, pfn, junk)
                   ELSE free_pages(K, pfn, junk)
         IN  destroy_vm_loop(K1, m, area_start + area_size, area_total_size - area_size, junk)

\* destroy_vm_area without --mm->map_count.
destroy_vm_area_keeps_count(K, m, k, junk) ==
    LET area == K.mm[m].mmap_list[k]
        K1 == destroy_vm_loop(K, m, area.vm_start, area.vm_end - area.vm_start, junk)
    IN  [K1 EXCEPT !.mm[m].mmap_list = list_head_remove(@, k)]

\* destroy_vm_area(mm, area); area is the k-th element of the list.
\* destroy_vm_area emptying the list instead of unlinking its own area
destroy_vm_area_unlinks_all(K, m, k, junk) ==
    LET area == K.mm[m].mmap_list[k]
        K1 == destroy_vm_loop(K, m, area.vm_start, area.vm_end - area.vm_start, junk)
    IN  [K1 EXCEPT !.mm[m].mmap_list = <<>>,
                   !.mm[m].map_count = @ - 1]

destroy_vm_area(K, m, k, junk) ==
    LET area == K.mm[m].mmap_list[k]
        K1 == destroy_vm_loop(K, m, area.vm_start, area.vm_end - area.vm_start, junk)
    IN  [K1 EXCEPT !.mm[m].mmap_list = list_head_remove(@, k),
                   !.mm[m].map_count = @ - 1]

\* --------------------------------------------------------- process images
\* create_blank_process_image(stack_size)
create_blank_process_image(K, m, stack_size) ==
    LET K1 == [K EXCEPT !.mm[m] = [BlankMM EXCEPT !.live = TRUE],
                        !.pde[m] = MainPgd,
                        !.pte[m] = [v \in VPages |-> ZeroPte]]
        SetStack(K2) ==
            IF K2.panic THEN K2
            ELSE [K2 EXCEPT !.mm[m].start_stack = PROCAREA_END_ADDR - stack_size]
    IN  SetStack(create_vm_area(K1, m, PROCAREA_END_ADDR - stack_size, stack_size,
                                {MM_PRESENT, MM_RW, MM_USER, MM_COW}))

\* the call in the loop of clone_process_image, with cow = 1 instead
clone_image_area_cow(K, d, s, area, c) == clone_vm_area(K, d, s, area, 1, c)

\* the call in the loop of clone_process_image: clone_vm_area(mm, vm_area, 0, GFP_HIGHUSER)
clone_image_area(K, d, s, area, c) == clone_vm_area(K, d, s, area, 0, c)

\* the loop of clone_process_image: each area of the source list, head first
RECURSIVE clone_each_area(_, _, _, _, _)
clone_each_area(K, d, s, i, c) ==
    IF i > Len(K.mm[s].mmap_list) \/ K.panic \/ K.oom THEN K
    ELSE clone_each_area(clone_image_area(K, d, s, K.mm[s].mmap_list[i], c), d, s, i + 1, c)

\* clone_process_image(mmp)
clone_process_image(K, d, s, c) ==
    LET K1 == [K EXCEPT !.mm[d] = [K.mm[s] EXCEPT !.mmap_list = <<>>, !.map_count = 0, !.total_vm = 0],
                        !.pde[d] = MainPgd,
                        !.pte[d] = [v \in VPages |-> ZeroPte]]
    IN  clone_each_area(K1, d, s, 1, c)

RECURSIVE destroy_each_area(_, _, _)
destroy_each_area(K, m, junk) ==
    IF K.mm[m].mmap_list = <<>> THEN K
    ELSE destroy_each_area(destroy_vm_area(K, m, 1, junk), m, junk)

\* the head of destroy_process_image without the switch
destroy_switch_directory_never(c, m) == c

\* the head of destroy_process_image: when the current directory c is mm's,
\* paging_switch_directory_va(paging_get_main_directory()); the result is the
\* directory that is current while the rest runs (0: the kernel's).
destroy_switch_directory(c, m) == IF c = m THEN 0 ELSE c

\* destroy_process_image(mm), entered with c the current directory: the
\* switch, then the areas, then the page tables that are not global, the
\* directory and the mm_struct go back to their caches.  dir is the current
\* directory throughout the frees and on return.
destroy_process_image(K, m, junk, c) ==
    LET Free(K1) == [K1 EXCEPT !.mm[m] = BlankMM,
                               !.pde[m] = [d \in Pdis |-> ZeroPde],
                               !.pte[m] = [v \in VPages |-> ZeroPte]]
    IN  [K |-> Free(destroy_each_area(K, m, junk)), dir |-> destroy_switch_directory(c, m)]

\* ------------------------------------------------------------ system calls
\* The placement of sys_mmap: the hint when it is given and is_valid_vm_area
\* does not answer 0, else what find_free_vm_area finds (ret 1: nothing).
mmap_place(list, addr, length) ==
    IF addr # 0 /\ is_valid_vm_area(list, addr, U32(addr + length)) # 0
    THEN [ret |-> 0, vm_start |-> addr]
    ELSE find_free_vm_area(list, length)

\* sys_mmap(addr, length, prot, flags, fd, offset) of the task whose mm is c:
\* ret is the address returned (0: NULL).
sys_mmap(K, c, addr, length) ==
    LET place == mmap_place(K.mm[c].mmap_list, addr, length) IN
    IF place.ret # 0
    THEN [K |-> K, ret |-> 0]
    ELSE [K |-> create_vm_area(K, c, place.vm_start, length, {MM_PRESENT, MM_RW, MM_COW, MM_USER}),
          ret |-> place.vm_start]

\* sys_munmap that looks the area up by its start alone
sys_munmap_by_start(K, c, addr, length, junk) ==
    LET MatchArea(a) == a.vm_start = addr
        k == LastMatch(K.mm[c].mmap_list, MatchArea)
    IN  IF k = 0 THEN [K |-> K, ret |-> 1]
        ELSE [K |-> destroy_vm_area(K, c, k, junk), ret |-> 0]

\* sys_munmap(addr, length)
sys_munmap(K, c, addr, length, junk) ==
    LET MatchArea(a) == a.vm_start = addr /\ length = a.vm_end - a.vm_start
        k == LastMatch(K.mm[c].mmap_list, MatchArea)
    IN  IF k = 0 THEN [K |-> K, ret |-> 1]
        ELSE [K |-> destroy_vm_area(K, c, k, junk), ret |-> 0]

\* ------------------------------------------------------------- the CPU
NoErr == [user |-> FALSE, rw |-> FALSE, present |-> FALSE]

\* The CPU's check of an access to page v under the directory of c.
Translates(K, c, v, user, write) ==
    LET d == K.pde[c][PdiOf(v)]
        e == K.pte[c][v]
    IN  /\ d.present = 1 /\ Get(e, "present") = 1
        /\ user => (d.user = 1 /\ Get(e, "user") = 1)
        /\ (user /\ write) => (d.rw = 1 /\ Get(e, "rw") = 1)

\* The task of address space c (in user mode, or the kernel on its behalf)
\* touches page v: the access goes through (out "ok", n the value read or
\* written), or it raises a page fault and page_fault_handler runs.
access(K, c, v, user, write, val) ==
    LET e == K.pte[c][v]
        f == e.frame
        err == [user |-> user, rw |-> write, present |-> K.pde[c][PdiOf(v)].present = 1 /\ Get(e, "present") = 1]
    IN  IF Translates(K, c, v, user, write)
        THEN [K |-> IF f \notin Frames THEN [K EXCEPT !.wild = TRUE]
                    ELSE IF write THEN [K EXCEPT !.frames[f].val = val]
                    ELSE K,
              op |-> IF write THEN "write" ELSE "read",
              out |-> "ok",
              n |-> IF write THEN val ELSE IF f \in Frames THEN K.frames[f].val ELSE 0,
              err |-> NoErr]
        ELSE LET Fault(r) == [K |-> r.K, op |-> "page_fault", out |-> r.out, n |-> 0, err |-> err]
             IN  Fault(page_fault_handler(K, c, v, err, c))

\* ------------------------------------------------------------ the machine
\* What a page descriptor outside the user zone may hold.
Junk == [count : {1, 2}, order : {0, 1}]

\* The frames the allocator holds free.
FreeFrames == {f \in Frames : ~frames[f].used}

\* the record of a kernel entry: op(m, a, n) returned ret and ended out;
\* free0 is the set of free frames when it was entered.  For a fault, err is
\* the error code, d0 the present bit of the directory entry, e0 the
\* page-table entry and c0 the page_count of its frame, all on entry.
\* cur0 is the current directory, mm0 the descriptor of m and backed0 the
\* frames of the user zone behind the present pages of m, all on entry.
BackedFrames(m) == {pte[m][v].frame : v \in {w \in VPages : Get(pte[m][w], "present") = 1}} \cap Frames
Last(op, m, a, n, ret, out) ==
    [op |-> op, m |-> m, a |-> a, n |-> n, ret |-> ret, out |-> out, free0 |-> FreeFrames,
     err |-> NoErr, d0 |-> 0, e0 |-> ZeroPte, c0 |-> 0, flags |-> {},
     cur0 |-> cur,
     mm0 |-> IF m \in MMIds THEN mm[m] ELSE BlankMM,
     backed0 |-> IF m \in MMIds THEN BackedFrames(m) ELSE {}]

Outcome(K) == IF K.panic THEN "panic" ELSE IF K.oom THEN "nomem" ELSE "ok"

InUniverse(start, size) == IterPages(start, size) \subseteq VPages /\ IterDirs(start, size) \subseteq Pdis

Disjoint(a, s, e) == e <= a.vm_start \/ a.vm_end <= s

\* The pages of address space m in [start, start + size).
PagesOf(m, start, size) == {m} \X IterPages(start, size)

\* The contents the user of an address space is entitled to (shadow), kept
\* beside the kernel's state: pages sh of mm get the values val gives them.
Remember(ps, val(_)) == [m \in MMIds |-> [v \in VPages |-> IF <<m, v>> \in ps THEN val(<<m, v>>) ELSE shadow[m][v]]]
Zero(p) == 0

\* A failed _alloc_pages is followed through create_vm_area; the runs of the
\* other operations in which it fails are left out.
Commit(K, c, l, sh, cw) ==
    /\ K.oom => l.op = "create_vm_area"
    /\ mm' = K.mm
    /\ pde' = K.pde
    /\ pte' = K.pte
    /\ frames' = K.frames
    /\ wild' = K.wild
    /\ tlb' = K.tlb
    /\ cur' = c
    /\ status' = IF K.panic THEN "panic" ELSE "running"
    /\ last' = l
    /\ shadow' = sh
    /\ cowed' = cw
    /\ nops' = nops + 1
    /\ UNCHANGED <<syscallVars, devfsVars, destroyVars>>

Ready == status = "running" /\ nops < MaxOps

\* The kernel after boot: nothing of the user zone is allocated, and the
\* first process (mm 1) has its blank image.
BootState ==
    [mm |-> [m \in MMIds |-> BlankMM],
     pde |-> [m \in MMIds |-> [d \in Pdis |-> ZeroPde]],
     pte |-> [m \in MMIds |-> [v \in VPages |-> ZeroPte]],
     frames |-> [f \in Frames |-> FreeFrame],
     wild |-> FALSE, tlb |-> {}, win |-> ZeroPte, panic |-> FALSE, oom |-> FALSE, np |-> 0]

\* The first process is running (Boot1); later it has mapped a page at the
\* hint and written 1 to it (Boot2); later a second process exists (Boot3).
Boot1 == create_blank_process_image(BootState, 1, PAGE_SIZE)
Boot2 ==
    LET K1 == sys_mmap(Boot1, 1, HintBase, PAGE_SIZE).K
        K2 == access(K1, 1, PfnOf(HintBase), TRUE, TRUE, 1).K
    IN  access(K2, 1, PfnOf(HintBase), TRUE, TRUE, 1).K
Boot3 == create_blank_process_image(Boot2, 2, PAGE_SIZE)
\* Or the first process has mapped three pages at the hint and written 1 to
\* the second of them alone (Boot4).
Boot4 ==
    LET K1 == sys_mmap(Boot1, 1, HintBase, 3 * PAGE_SIZE).K
        K2 == access(K1, 1, PfnOf(HintBase) + 1, TRUE, TRUE, 1).K
    IN  access(K2, 1, PfnOf(HintBase) + 1, TRUE, TRUE, 1).K

Init ==
    /\ \E B0 \in {[K |-> Boot1, cur |-> 0, written |-> {}],
                  [K |-> Boot2, cur |-> 1, written |-> {<<1, PfnOf(HintBase)>>}],
                  [K |-> Boot3, cur |-> 1, written |-> {<<1, PfnOf(HintBase)>>}],
                  [K |-> Boot4, cur |-> 1, written |-> {<<1, PfnOf(HintBase) + 1>>}]} :
        /\ mm = B0.K.mm
        /\ pde = B0.K.pde
        /\ pte = B0.K.pte
        /\ frames = B0.K.frames
        /\ cur = B0.cur
        /\ shadow = [m \in MMIds |-> [v \in VPages |-> IF <<m, v>> \in B0.written THEN 1 ELSE 0]]
    /\ status = "running"
    /\ wild = FALSE
    /\ tlb = {}
    /\ last = Last("boot", 0, 0, 0, 0, "ok")
    /\ cowed = {}
    /\ nops = 0
    /\ dpi = DpiIdle
    /\ SyscallBoot
    /\ DevfsBoot

\* a new process: create_blank_process_image(stack_size)
CreateBlankProcessImage(m, stack_size) ==
    /\ Ready
    /\ ~mm[m].live
    /\ LET Done(K) == Commit(K, cur, Last("create_blank_process_image", m, PROCAREA_END_ADDR - stack_size, stack_size, 0, Outcome(K)),
                             Remember({m} \X VPages, Zero), cowed \ ({m} \X VPages))
       IN  Done(create_blank_process_image(KState, m, stack_size))

\* the program loader maps a segment: create_vm_area(mm, vm_start, size, pgflags, GFP_HIGHUSER);
\* np, what a null page is turned into, is a choice only when no block is left
CreateVmArea(m, vm_start, size, pgflags, np) ==
    /\ Ready
    /\ mm[m].live
    /\ InUniverse(vm_start, size)
    /\ np # 0 => AllocBase(frames, find_nearest_order_greater(vm_start, size)) = 0
    /\ LET Done(K) == Commit(K, cur, Last("create_vm_area", m, vm_start, size, 0, Outcome(K)),
                             Remember(PagesOf(m, vm_start, size), Zero), cowed \ PagesOf(m, vm_start, size))
       IN  Done(create_vm_area([KState EXCEPT !.np = np], m, vm_start, size, pgflags))

\* the task of address space c runs and calls mmap
SysMmap(c, addr, length) ==
    /\ Ready
    /\ mm[c].live
    /\ LET place == mmap_place(mm[c].mmap_list, addr, length)
       IN  place.ret = 0 => InUniverse(place.vm_start, length)
    /\ LET New(r) == IF r.ret = 0 THEN {} ELSE PagesOf(c, r.ret, length)
           Done(r) == Commit(r.K, c, Last("sys_mmap", c, addr, length, r.ret, IF r.ret = 0 THEN "null" ELSE Outcome(r.K)),
                             Remember(New(r), Zero), cowed \ New(r))
       IN  Done(sys_mmap(KState, c, addr, length))

\* the task of address space c runs and calls munmap
SysMunmap(c, addr, length, junk) ==
    /\ Ready
    /\ mm[c].live
    /\ LET Gone(r) == IF r.ret = 0 THEN PagesOf(c, addr, length) \cap (MMIds \X VPages) ELSE {}
           Done(r) == Commit(r.K, c, Last("sys_munmap", c, addr, length, r.ret, Outcome(r.K)),
                             Remember(Gone(r), Zero), cowed \ Gone(r))
       IN  Done(sys_munmap(KState, c, addr, length, junk))

\* clone_vm_area(mm, area, cow, GFP_HIGHUSER) of the k-th area of s into d,
\* where the range is free
CloneVmArea(d, s, k, cow) ==
    /\ Ready
    /\ d # s /\ mm[d].live /\ mm[s].live
    /\ k \in 1 .. Len(mm[s].mmap_list)
    /\ \A i \in 1 .. Len(mm[d].mmap_list) :
           Disjoint(mm[d].mmap_list[i], mm[s].mmap_list[k].vm_start, mm[s].mmap_list[k].vm_end)
    /\ LET area == mm[s].mmap_list[k]
           pages == IterPages(area.vm_start, area.vm_end - area.vm_start)
           FromSrc(p) == shadow[s][p[2]]
           Done(K) == Commit(K, cur, Last("clone_vm_area", d, area.vm_start, cow, s, Outcome(K)),
                             Remember({d} \X pages, FromSrc),
                             IF cow = 1 THEN cowed \cup ({s, d} \X pages) ELSE cowed \ ({d} \X pages))
       IN  Done(clone_vm_area(KState, d, s, area, cow, cur))

\* fork: clone_process_image(mmp) of s into the new mm_struct d
CloneProcessImage(d, s) ==
    /\ Ready
    /\ ~mm[d].live /\ mm[s].live
    /\ LET FromSrc(p) == shadow[s][p[2]]
           Done(K) == Commit(K, cur, Last("clone_process_image", d, 0, 0, s, Outcome(K)),
                             Remember({d} \X VPages, FromSrc), cowed \ ({d} \X VPages))
       IN  Done(clone_process_image(KState, d, s, cur))

\* exit: destroy_process_image(mm)
DestroyProcessImage(m, junk) ==
    /\ Ready
    /\ mm[m].live
    /\ LET Done(r) == Commit(r.K, r.dir, Last("destroy_process_image", m, 0, 0, 0, Outcome(r.K)),
                             Remember({m} \X VPages, Zero), cowed \ ({m} \X VPages))
       IN  Done(destroy_process_image(KState, m, junk, cur))

\* The task of address space c runs and touches page v.
Access(c, v, user, write, val) ==
    /\ Ready
    /\ mm[c].live
    /\ LET f == pte[c][v].frame
           Written(p) == val
           Done(r) == Commit(r.K, c, [Last(r.op, c, v, r.n, 0, r.out) EXCEPT
                                          !.err = r.err, !.d0 = pde[c][PdiOf(v)].present, !.e0 = pte[c][v],
                                          !.c0 = IF f \in Frames THEN frames[f].count ELSE 0],
                             IF r.op = "write" THEN Remember({<<c, v>>}, Written) ELSE shadow, cowed)
       IN  Done(access(KState, c, v, user, write, val))

Next ==
    \/ \E m \in MMIds, ss \in StackSizes : CreateBlankProcessImage(m, ss)
    \/ \E m \in MMIds, a \in HintAddrs, n \in Sizes, np \in NullPhys : CreateVmArea(m, a, n, {MM_PRESENT, MM_RW, MM_USER}, np)
    \/ \E c \in MMIds, a \in {0} \cup HintAddrs, n \in Sizes : SysMmap(c, a, n)
    \/ \E c \in MMIds, a \in HintAddrs \cup {PROCAREA_END_ADDR - ss : ss \in StackSizes}, n \in Lengths, j \in Junk : SysMunmap(c, a, n, j)
    \/ \E d \in MMIds, s \in MMIds, k \in 1 .. (MaxOps + 1), cow \in {0, 1} : CloneVmArea(d, s, k, cow)
    \/ \E d \in MMIds, s \in MMIds : CloneProcessImage(d, s)
    \/ \E m \in MMIds, j \in Junk : DestroyProcessImage(m, j)
    \/ \E c \in MMIds, v \in AccessPages, md \in AccessModes, val \in 1 .. MaxVal : Access(c, v, md[1], md[2], val)

Spec == Init /\ [][Next]_vars

\* ------------------------------------------------------------ properties
\* The pages of a vm_area_struct.
AreaPages(a) == IterPages(a.vm_start, a.vm_end - a.vm_start)

\* The task's access to a page last.a of address space last.m, or the fault it raised.
Touched == last.op \in {"read", "write", "page_fault"}

\* page_fault_handler ran on a fault whose directory entry was present.
FaultWithTable == last.op = "page_fault" /\ last.d0 = 1

\* C1: after clone_vm_area with cow = 1, every access to a page of the area,
\* through either address space, goes through (no SIGSEGV, no panic), and a
\* read returns what that address space holds: the value at the clone or what
\* was written through the same address space since, never what the other
\* side wrote.
CowCloneIsolates ==
    (Touched /\ <<last.m, last.a>> \in cowed) =>
        /\ last.out \in {"ok", "resolved"}
        /\ last.op = "read" => last.n = shadow[last.m][last.a]

\* C2: any two distinct areas of one mm's list have disjoint ranges
\* [vm_start, vm_end).
VmasDisjoint ==
    \A m \in MMIds : \A i, j \in 1 .. Len(mm[m].mmap_list) :
        i # j => Disjoint(mm[m].mmap_list[i], mm[m].mmap_list[j].vm_start, mm[m].mmap_list[j].vm_end)

\* C3: a write fault on an entry that is present and copy-on-write is
\* resolved: the entry ends present, writable, not copy-on-write, on a frame
\* that was free, which holds the old frame's contents, and the old frame's
\* page_count is one less.
CowWriteFaultCopies ==
    (FaultWithTable /\ last.err.rw /\ Get(last.e0, "present") = 1 /\ Get(last.e0, "kernel_cow") = 1) =>
        /\ last.out = "resolved"
        /\ Get(pte[last.m][last.a], "present") = 1
        /\ Get(pte[last.m][last.a], "rw") = 1
        /\ Get(pte[last.m][last.a], "kernel_cow") = 0
        /\ pte[last.m][last.a].frame \in last.free0
        /\ last.e0.frame \in Frames
        /\ frames[pte[last.m][last.a].frame].val = frames[last.e0.frame].val
        /\ frames[last.e0.frame].count = last.c0 - 1

NonCowFaultIsTerminal ==
    (FaultWithTable /\ Get(last.e0, "kernel_cow") = 0) =>
        IF last.err.user
        THEN last.out = "sigsegv" /\ status = "running"
        ELSE last.out = "panic" /\ status = "panic"

\* C6: a fault whose directory entry is not present: from user mode, with a
\* current task, SIGSEGV and no panic; from kernel mode, panic.
FaultWithoutTableIsTerminal ==
    (last.op = "page_fault" /\ last.d0 = 0) =>
        IF last.err.user
        THEN last.out = "sigsegv" /\ status = "running"
        ELSE last.out = "panic" /\ status = "panic"

\* C6, reached: a user access under a directory entry that is not present.
FaultWithoutTableReached ==
    last.op = "page_fault" /\ last.d0 = 0 /\ last.err.user /\ last.out = "sigsegv"

VmasSorted ==
    \A m \in MMIds : \A i \in 1 .. (Len(mm[m].mmap_list) - 1) :
        mm[m].mmap_list[i].vm_start <= mm[m].mmap_list[i + 1].vm_start

\* The sum over a list of (vm_end - vm_start) / PAGE_SIZE.
RECURSIVE SumPages(_)
SumPages(list) ==
    IF list = <<>> THEN 0
    ELSE ((Head(list).vm_end - Head(list).vm_start) \div PAGE_SIZE) + SumPages(Tail(list))

\* C9: total_vm of every mm is the sum of the pages of the areas in its list.
TotalVmIsSum == \A m \in MMIds : mm[m].total_vm = SumPages(mm[m].mmap_list)

\* C10: map_count of every mm is the length of its list.
MapCountIsLength == \A m \in MMIds : mm[m].map_count = Len(mm[m].mmap_list)

\* C10, reached: sys_munmap removed an area and others remain.
MapCountReached ==
    last.op = "sys_munmap" /\ last.ret = 0 /\ last.out = "ok" /\ mm[last.m].map_count >= 1

\* The areas of mm m whose range is exactly [addr, addr + length).
ExactAreas(m, addr, length) ==
    {i \in 1 .. Len(mm[m].mmap_list) :
        mm[m].mmap_list[i].vm_start = addr /\ mm[m].mmap_list[i].vm_end - mm[m].mmap_list[i].vm_start = length}

\* C11: sys_munmap(addr, length) returns 0 only when an area of the task has
\* vm_start = addr and vm_end - vm_start = length, and then one area is gone;
\* for any other (addr, length) it returns non-zero and the list, map_count and
\* every page-table entry are as before.
MunmapNeedsExactArea ==
    [][(nops' = nops + 1 /\ last'.op = "sys_munmap") =>
          /\ (last'.ret = 0) = (ExactAreas(last'.m, last'.a, last'.n) # {})
          /\ last'.ret = 0 => Len(mm'[last'.m].mmap_list) = Len(mm[last'.m].mmap_list) - 1
          /\ last'.ret # 0 => (mm' = mm /\ pte' = pte /\ pde' = pde)]_vars

\* C11, reached: sys_munmap of the first page of an area of three pages fails.
MunmapOfPartReached ==
    /\ last.op = "sys_munmap" /\ last.ret # 0
    /\ \E i \in 1 .. Len(mm[last.m].mmap_list) :
           /\ mm[last.m].mmap_list[i].vm_start = last.a
           /\ mm[last.m].mmap_list[i].vm_end > last.a + last.n

\* C12: after sys_munmap returned 0, no page-table entry of the range is
\* present, so that an access to it faults.
UnmappedPagesNotPresent ==
    (last.op = "sys_munmap" /\ last.ret = 0) =>
        \A v \in IterPages(last.a, last.n) : Get(pte[last.m][v], "present") = 0

\* The range [addr, addr + length) is not empty, does not wrap and shares no
\* address with an area of the list.
RangeIsFree(list, addr, length) ==
    /\ length > 0
    /\ addr + length < AddrSpace
    /\ \A i \in 1 .. Len(list) : Disjoint(list[i], addr, addr + length)

\* C13: sys_mmap with a non-null hint places the area at the hint exactly when
\* the hinted range is valid and overlaps no area of the task; for every other
\* hint (length 0 included) the placement is the one of the search for a gap,
\* NULL when there is none.
MmapHonoursFreeHintOnly ==
    [][(nops' = nops + 1 /\ last'.op = "sys_mmap" /\ last'.a # 0) =>
          IF RangeIsFree(mm[last'.m].mmap_list, last'.a, last'.n)
          THEN last'.ret = last'.a
          ELSE LET gap == find_free_vm_area(mm[last'.m].mmap_list, last'.n)
               IN  last'.ret = (IF gap.ret = 0 THEN gap.vm_start ELSE 0)]_vars

\* C15: create_vm_area returns (no panic) only for a range that is not empty
\* and shares no address with an area the mm already had: afterwards the new
\* area is the only one of the list that meets the range.
CreateVmAreaRejectsOverlap ==
    (last.op = "create_vm_area" /\ last.out = "ok") =>
        /\ last.n > 0
        /\ Cardinality({i \in 1 .. Len(mm[last.m].mmap_list) :
                           ~Disjoint(mm[last.m].mmap_list[i], last.a, last.a + last.n)}) = 1

\* C14: after destroy_process_image(mm) returned, every frame that backed a
\* present page of mm when it was called, and that no other live mm maps, is
\* back in the page-frame allocator.
ImageFramesReturned ==
    (last.op = "destroy_process_image" /\ last.out = "ok") =>
        \A f \in last.backed0 :
            \/ ~frames[f].used
            \/ \E m2 \in MMIds \ {last.m} : mm[m2].live /\ f \in BackedFrames(m2)

\* C16: when _alloc_pages fails in create_vm_area, the operation leaves the
\* list of areas, map_count and total_vm of the mm as they were.
AllocFailureLeavesMM ==
    (last.op = "create_vm_area" /\ last.out = "nomem") => mm[last.m] = last.mm0

UpdFlushesAlteredEntries ==
    [][(nops' = nops + 1 /\ last'.op \in {"create_vm_area", "sys_mmap"}) =>
          \A v \in VPages : pte'[last'.m][v] # pte[last'.m][v] => v \in tlb']_vars

\* ------------------------------------------------------ system-call entry
MaxCalls == 2

\* errno.h
ENOSYS == 38

\* syscall_types.h: the size of sys_call_table and the indices
\* syscall_handler tells apart.
SYSCALL_NUMBER == 190
NR_exit == 1
NR_fork == 2
NR_execve == 11
NR_mmap == 90
NR_sigreturn == 119
NR_clone == 120

\* The largest value of the 32-bit register that the model's integers hold.
MaxIndex == 2147483647

\* What the task puts in eax and ebx, and what a system call may return.
Indices == {0, NR_exit, NR_fork, NR_mmap, NR_clone, SYSCALL_NUMBER - 1, SYSCALL_NUMBER, SYSCALL_NUMBER + 1, MaxIndex}
Ebx == {0, 7}
CallResults == {0, 3, -ENOSYS}

\* syscall_init: of the indices syscall_handler names, the one that is given
\* no function; its slot of the zero-initialised table is null.
Unassigned == {NR_clone}

\* The call syscall_handler makes for an index inside the table: fork, clone,
\* execve and sigreturn get the frame as their first argument, mmap gets six
\* arguments read through ebx, the others the five registers.
sys_call(index, ebx) ==
    [index |-> index,
     arg0 |-> IF index \in {NR_fork, NR_clone, NR_execve, NR_sigreturn} THEN "frame" ELSE "ebx",
     args |-> IF index = NR_mmap THEN 6 ELSE 5,
     ebx |-> ebx,
     null |-> index \in Unassigned]

\* The value syscall_handler gives ret when the index is outside the table.
outside_table_ret == ENOSYS

\* syscall_handler(f): the task trapped with eax = index and ebx; res is what
\* the function of the table returns when one is called.
SyscallHandler(index, ebx, res) ==
    /\ Len(scheduled) < MaxCalls
    /\ LET ret == IF index >= SYSCALL_NUMBER THEN outside_table_ret ELSE res IN
        /\ sc_index' = index
        /\ invoked' = IF index >= SYSCALL_NUMBER THEN invoked ELSE Append(invoked, sys_call(index, ebx))
        /\ frame' = [eax |-> ret, ebx |-> ebx]
        /\ scheduled' = Append(scheduled, ret)
    /\ UNCHANGED <<pagingVars, devfsVars, destroyVars>>

\* The kernel has booted and no process has entered the memory manager.
PagingIdle ==
    /\ mm = Boot1.mm
    /\ pde = Boot1.pde
    /\ pte = Boot1.pte
    /\ frames = Boot1.frames
    /\ cur = 0
    /\ shadow = [m \in MMIds |-> [v \in VPages |-> 0]]
    /\ status = "running"
    /\ wild = FALSE
    /\ tlb = {}
    /\ last = Last("boot", 0, 0, 0, 0, "ok")
    /\ cowed = {}
    /\ nops = 0
    /\ dpi = DpiIdle

SyscallInit == PagingIdle /\ SyscallBoot /\ DevfsBoot

SyscallNext == \E index \in Indices, ebx \in Ebx, res \in CallResults : SyscallHandler(index, ebx, res)

SyscallSpec == SyscallInit /\ [][SyscallNext]_vars

\* C19: when syscall_handler read an index at or above SYSCALL_NUMBER, it
\* made no call through the table, and the eax the scheduler was run with,
\* which is the eax of the frame, is -ENOSYS.
OutsideTableIsENOSYS ==
    [][(Len(scheduled') = Len(scheduled) + 1 /\ sc_index' >= SYSCALL_NUMBER) =>
          /\ invoked' = invoked
          /\ frame'.eax = -ENOSYS
          /\ scheduled'[Len(scheduled')] = -ENOSYS]_vars

\* ------------------------------------------------------ device file system
\* errno.h
EPERM == 1
ENOENT == 2
EACCES == 13
EBUSY == 16
EEXIST == 17
ENOTDIR == 20
EISDIR == 21
EINVAL == 22
ENFILE == 23

\* sizeof(dirent_t), and the counts and offsets getdents is called with.
sizeof_dirent_t == 268
Counts == {sizeof_dirent_t, sizeof_dirent_t + 1, 2 * sizeof_dirent_t}
Offsets == {0, sizeof_dirent_t, 2 * sizeof_dirent_t}

DEVFS_MAX_FILES == 1024

\* fcntl.h: the open flags devfs_open looks at.
O_WRONLY == "O_WRONLY"
O_RDWR == "O_RDWR"
O_CREAT == "O_CREAT"
O_EXCL == "O_EXCL"
O_DIRECTORY == "O_DIRECTORY"
OpenFlags ==
    {{}, {O_RDWR}, {O_WRONLY}, {O_CREAT}, {O_CREAT, O_EXCL},
     {O_DIRECTORY}, {O_DIRECTORY, O_RDWR}, {O_DIRECTORY, O_WRONLY}}

\* bitmask_check(flags, mask): some bit of mask is set in flags.
bitmask_check(flags, mask) == flags \cap mask # {}

\* flags & type, for the two types a node has (DT_DIR and DT_REG share no bit).
type_check(flags, type) == flags = type

\* The paths callers pass, and dirname of each.
Paths == {".", "..", "/dev", "/dev/a", "/dev/b", "/dev/a/c", "/dev/x/c"}
EntryNames == {"/dev/a", "/dev/a/c"}
dirname(path) ==
    CASE path \in {".", ".."} -> "."
      [] path = "/dev" -> "/"
      [] path \in {"/dev/a", "/dev/b"} -> "/dev"
      [] path = "/dev/a/c" -> "/dev/a"
      [] path = "/dev/x/c" -> "/dev/x"

\* The state the devfs functions work on.
DState == [files |-> fs_files, nfiles |-> fs_nfiles, vfs |-> vfs, errno |-> errno, fault |-> FALSE]

\* devfs_find_entry_path(path): the position of the first node of that name, 0 for NULL.
devfs_find_entry_path(files, path) ==
    LET hits == {i \in 1 .. Len(files) : files[i].name = path} IN
    IF hits = {} THEN 0 ELSE CHOOSE i \in hits : \A j \in hits : i <= j

\* devfs_get_free_inode
devfs_get_free_inode(files) ==
    LET used == {files[i].inode : i \in 1 .. Len(files)}
        free == (1 .. (DEVFS_MAX_FILES - 1)) \ used IN
    IF free = {} THEN -1 ELSE CHOOSE n \in free : \A k \in free : n <= k

\* devfs_create_file(path, flags): the node goes to the tail of fs.files.
devfs_create_file(F, path, flags) ==
    [F EXCEPT !.files = Append(@, [name |-> path, inode |-> devfs_get_free_inode(F.files),
                                   flags |-> flags, files |-> <<>>, fs_operations |-> NullOps]),
              !.nfiles = @ + 1]

\* devfs_destroy_file(devfs_file): k is the position of the node, 0 for NULL.
devfs_destroy_file(F, k) ==
    IF k = 0 THEN [F |-> F, ret |-> 1]
    ELSE [F |-> [F EXCEPT !.files = list_head_remove(@, k), !.nfiles = @ - 1], ret |-> 0]

\* kmem_cache_alloc(vfs_file_cache): the first free object, 0 when none is left.
vfs_alloc(F) ==
    LET free == {i \in VfsIds : ~F.vfs[i].used} IN
    IF free = {} THEN 0 ELSE CHOOSE i \in free : \A j \in free : i <= j

\* devfs_create_file_struct(devfs_file), then the insertion of the vfs_file
\* into the node's list of files; k is the position of the node.
devfs_open_node(F, k, err) ==
    LET id == vfs_alloc(F) IN
    IF id = 0 THEN [F |-> [F EXCEPT !.errno = err], ret |-> 0]
    ELSE [F |-> [F EXCEPT !.vfs[id] = [used |-> TRUE, name |-> F.files[k].name, ino |-> F.files[k].inode],
                          !.files[k].files = Append(@, id)],
          ret |-> id]

\* the first test of devfs_open on a node that exists, never taken
open_rejects_existing_never(flags) == FALSE

\* the first test of devfs_open on a node that exists:
\* bitmask_check(flags, O_CREAT | O_EXCL)
open_rejects_existing(flags) == bitmask_check(flags, {O_CREAT, O_EXCL})

\* devfs_open(path, flags, mode): ret is the vfs_file, 0 for NULL.
devfs_open(F, path, flags) ==
    LET parent_path == dirname(path)
        parent == devfs_find_entry_path(F.files, parent_path)
        k == devfs_find_entry_path(F.files, path)
        Fail(e) == [F |-> [F EXCEPT !.errno = e], ret |-> 0]
        Created(F1) == devfs_open_node(F1, Len(F1.files), ENFILE)
    IN  IF parent_path \notin {".", "/"} /\ parent = 0 THEN Fail(ENOENT)
        ELSE IF parent_path \notin {".", "/"} /\ ~type_check(F.files[parent].flags, DT_DIR) THEN Fail(ENOTDIR)
        ELSE IF k # 0
        THEN IF open_rejects_existing(flags) THEN Fail(EEXIST)
             ELSE IF bitmask_check(flags, {O_DIRECTORY}) /\ ~type_check(F.files[k].flags, DT_DIR) THEN Fail(ENOTDIR)
             ELSE IF bitmask_check(flags, {O_DIRECTORY}) /\ (bitmask_check(flags, {O_RDWR}) \/ bitmask_check(flags, {O_WRONLY}))
             THEN Fail(EISDIR)
             ELSE devfs_open_node(F, k, ENFILE)
        ELSE IF bitmask_check(flags, {O_CREAT}) THEN Created(devfs_create_file(F, path, DT_REG))
        ELSE Fail(ENOENT)

\* devfs_close(file): the vfs_file leaves the list it is in and is freed.
devfs_close(F, id) ==
    [F EXCEPT !.files = [i \in 1 .. Len(F.files) |->
                            [F.files[i] EXCEPT !.files = SelectSeq(@, LAMBDA x : x # id)]],
              !.vfs[id] = NoVfs]

\* What devfs_unlink does once it reads the flags and the list of files
\* through the null pointer: the kernel faults, or the words read send it to
\* one of its returns (devfs_destroy_file(NULL) changes nothing).
UnlinkNull == {[fault |-> TRUE, ret |-> 0]} \cup [fault : {FALSE}, ret : {-EISDIR, -EACCES, 0}]

\* devfs_unlink(path); ub is the outcome of the reads through the null pointer.
devfs_unlink(F, path, ub) ==
    LET k == devfs_find_entry_path(F.files, path) IN
    IF path \in {".", ".."} THEN [F |-> F, ret |-> -EPERM]
    ELSE IF k # 0 THEN [F |-> F, ret |-> -EEXIST]
    ELSE [F |-> [F EXCEPT !.fault = ub.fault], ret |-> ub.ret]

\* devfs_create_entry(name): ret 1 for the dir_entry, 0 for NULL.
devfs_create_entry(F, name) ==
    IF devfs_find_entry_path(F.files, name) # 0
    THEN [F |-> [F EXCEPT !.errno = EEXIST], ret |-> 0]
    ELSE [F |-> devfs_create_file(F, name, DT_REG), ret |-> 1]

\* The driver that called devfs_create_entry stores its table of file
\* operations in the dir_entry it got back (the node is the last of fs.files).
driver_install(r, ops) ==
    IF r.ret = 0 THEN r ELSE [r EXCEPT !.F.files[Len(r.F.files)].fs_operations = ops]

\* devfs_find_entry_inode(inode): the position of the first node of that inode, 0 for NULL.
devfs_find_entry_inode(files, inode) ==
    LET hits == {i \in 1 .. Len(files) : files[i].inode = inode} IN
    IF hits = {} THEN 0 ELSE CHOOSE i \in hits : \A j \in hits : i <= j

\* The node's driver supplies the function fn.
Supplies(files, k, fn) == k # 0 /\ ~files[k].fs_operations.null /\ fn \in files[k].fs_operations.fns

\* devfs_read(file, ...): drv is what the driver's read_f returns.
devfs_read(F, id, drv) ==
    IF Supplies(F.files, devfs_find_entry_inode(F.files, F.vfs[id].ino), "read_f")
    THEN [ret |-> drv, driver |-> TRUE] ELSE [ret |-> -ENOSYS, driver |-> FALSE]

\* devfs_write(file, ...)
devfs_write(F, id, drv) ==
    IF Supplies(F.files, devfs_find_entry_inode(F.files, F.vfs[id].ino), "write_f")
    THEN [ret |-> drv, driver |-> TRUE] ELSE [ret |-> -ENOSYS, driver |-> FALSE]

\* devfs_lseek(file, offset, whence)
devfs_lseek(F, id, drv) ==
    LET k == devfs_find_entry_inode(F.files, F.vfs[id].ino) IN
    IF k = 0 THEN [ret |-> -ENOSYS, driver |-> FALSE]
    ELSE IF Supplies(F.files, k, "lseek_f") THEN [ret |-> drv, driver |-> TRUE]
    ELSE [ret |-> -EINVAL, driver |-> FALSE]

\* devfs_ioctl(file, request, data)
devfs_ioctl(F, id, drv) ==
    IF Supplies(F.files, devfs_find_entry_inode(F.files, F.vfs[id].ino), "ioctl_f")
    THEN [ret |-> drv, driver |-> TRUE] ELSE [ret |-> -1, driver |-> FALSE]

\* The four calls by the name of the driver function they look for.
FileOps == {"read_f", "write_f", "lseek_f", "ioctl_f"}
devfs_file_op(F, id, fn, drv) ==
    CASE fn = "read_f" -> devfs_read(F, id, drv)
      [] fn = "write_f" -> devfs_write(F, id, drv)
      [] fn = "lseek_f" -> devfs_lseek(F, id, drv)
      [] fn = "ioctl_f" -> devfs_ioctl(F, id, drv)

\* The loop of devfs_getdents over fs.files from position i: out is the
\* names of the records written so far, in dirp[0], dirp[1], ...
RECURSIVE getdents_loop(_, _, _, _, _, _, _)
getdents_loop(files, dname, doff, count, i, iterated_size, out) ==
    IF i > Len(files) THEN out
    ELSE IF files[i].name = dname \/ dirname(files[i].name) # dname
    THEN getdents_loop(files, dname, doff, count, i + 1, iterated_size, out)
    ELSE IF iterated_size + sizeof_dirent_t <= doff
    THEN getdents_loop(files, dname, doff, count, i + 1, iterated_size + sizeof_dirent_t, out)
    ELSE IF (Len(out) + 1) * sizeof_dirent_t >= count THEN Append(out, files[i].name)
    ELSE getdents_loop(files, dname, doff, count, i + 1, iterated_size + sizeof_dirent_t, Append(out, files[i].name))

\* devfs_getdents(file, dirp, doff, count): ret is the value returned, dirents
\* the names of the records written from dirp on.
devfs_getdents(files, ino, doff, count) ==
    LET k == devfs_find_entry_inode(files, ino)
        Records(out) == [ret |-> Len(out) * sizeof_dirent_t, dirents |-> out]
    IN  IF count < sizeof_dirent_t THEN [ret |-> -1, dirents |-> <<>>]
        ELSE IF files = <<>> THEN [ret |-> 0, dirents |-> <<>>]
        ELSE IF k = 0 THEN [ret |-> -ENOENT, dirents |-> <<>>]
        ELSE IF ~type_check(files[k].flags, DT_DIR) THEN [ret |-> -ENOTDIR, dirents |-> <<>>]
        ELSE Records(getdents_loop(files, files[k].name, doff, count, 1, 0, <<>>))

\* devfs_destroy_entry(name) without the test for open files
devfs_destroy_entry_busy(F, name) ==
    LET k == devfs_find_entry_path(F.files, name) IN
    IF k = 0 THEN [F |-> F, ret |-> -ENOENT]
    ELSE [F |-> devfs_destroy_file(F, k).F, ret |-> 0]

\* devfs_destroy_entry(name)
devfs_destroy_entry(F, name) ==
    LET k == devfs_find_entry_path(F.files, name) IN
    IF k = 0 THEN [F |-> F, ret |-> -ENOENT]
    ELSE IF F.files[k].files # <<>> THEN [F |-> F, ret |-> -EBUSY]
    ELSE [F |-> devfs_destroy_file(F, k).F, ret |-> 0]

\* The node of that path is a regular file / has open files.
IsRegular(path) ==
    LET k == devfs_find_entry_path(fs_files, path) IN k # 0 /\ type_check(fs_files[k].flags, DT_REG)
IsBusy(path) ==
    LET k == devfs_find_entry_path(fs_files, path) IN k # 0 /\ fs_files[k].files # <<>>

DevfsReady == dstatus = "running" /\ dlast.seq < MaxDevOps

\* The call returns: the state it left and its record.
DCommit(F, l) ==
    /\ fs_files' = F.files
    /\ fs_nfiles' = F.nfiles
    /\ vfs' = F.vfs
    /\ errno' = F.errno
    /\ dstatus' = IF F.fault THEN "fault" ELSE "running"
    /\ dlast' = [l EXCEPT !.seq = dlast.seq + 1,
                          !.gone = (dlast.gone \cup (IF l.op = "devfs_destroy_entry" /\ l.ret = 0 THEN {l.path} ELSE {}))
                                       \ {F.files[i].name : i \in 1 .. Len(F.files)}]
    /\ UNCHANGED <<pagingVars, syscallVars, destroyVars>>

DevfsOpen(path, flags) ==
    /\ DevfsReady
    /\ LET Done(r) == DCommit(r.F, [DLast("devfs_open", path, r.ret, IsRegular(path), IsBusy(path), fs_nfiles)
                                        EXCEPT !.flags = flags])
       IN  Done(devfs_open(DState, path, flags))

DevfsClose(id) ==
    /\ DevfsReady
    /\ vfs[id].used
    /\ DCommit(devfs_close(DState, id), DLast("devfs_close", vfs[id].name, 0, IsRegular(vfs[id].name), IsBusy(vfs[id].name), fs_nfiles))

DevfsUnlink(path, ub) ==
    /\ DevfsReady
    /\ LET Done(r) == DCommit(r.F, DLast("devfs_unlink", path, r.ret, IsRegular(path), IsBusy(path), fs_nfiles))
       IN  Done(devfs_unlink(DState, path, ub))

DevfsCreateEntry(name, ops) ==
    /\ DevfsReady
    /\ LET Done(r) == DCommit(r.F, DLast("devfs_create_entry", name, r.ret, IsRegular(name), IsBusy(name), fs_nfiles))
       IN  Done(driver_install(devfs_create_entry(DState, name), ops))

\* devfs_read, devfs_write, devfs_lseek or devfs_ioctl on an open vfs_file.
DevfsFileOp(id, fn, drv) ==
    /\ DevfsReady
    /\ vfs[id].used
    /\ LET Done(r) == DCommit(DState, [DLast(fn, vfs[id].name, r.ret, IsRegular(vfs[id].name), IsBusy(vfs[id].name), fs_nfiles)
                                        EXCEPT !.driver = r.driver,
                                               !.hasop = Supplies(fs_files, devfs_find_entry_inode(fs_files, vfs[id].ino), fn)])
       IN  Done(devfs_file_op(DState, id, fn, drv))

\* devfs_getdents on an open vfs_file.
DevfsGetdents(id, doff, count) ==
    /\ DevfsReady
    /\ vfs[id].used
    /\ LET Done(r) == DCommit(DState, DLast("devfs_getdents", vfs[id].name, r.ret, IsRegular(vfs[id].name), IsBusy(vfs[id].name), fs_nfiles))
       IN  Done(devfs_getdents(fs_files, vfs[id].ino, doff, count))

DevfsDestroyEntry(name) ==
    /\ DevfsReady
    /\ LET Done(r) == DCommit(r.F, DLast("devfs_destroy_entry", name, r.ret, IsRegular(name), IsBusy(name), fs_nfiles))
       IN  Done(devfs_destroy_entry(DState, name))

DevfsInit == PagingIdle /\ SyscallBoot /\ (DevfsBoot \/ DevfsBoot2)

DevfsNext ==
    \/ \E path \in Paths, flags \in OpenFlags : DevfsOpen(path, flags)
    \/ \E id \in VfsIds : DevfsClose(id)
    \/ \E path \in Paths, ub \in UnlinkNull : DevfsUnlink(path, ub)
    \/ \E name \in EntryNames, ops \in DriverTables : DevfsCreateEntry(name, ops)
    \/ \E id \in VfsIds, fn \in FileOps, drv \in DriverRets : DevfsFileOp(id, fn, drv)
    \/ \E id \in VfsIds, doff \in Offsets, count \in {0} \cup Counts : DevfsGetdents(id, doff, count)
    \/ \E name \in EntryNames : DevfsDestroyEntry(name)

DevfsSpec == DevfsInit /\ [][DevfsNext]_vars

\* C20: devfs_unlink(path) of a regular node that no vfs_file has open
\* returns 0, the node is gone from fs.files and fs.nfiles is one less.
UnlinkRemovesNode ==
    (dlast.op = "devfs_unlink" /\ dlast.reg0 /\ ~dlast.busy0) =>
        /\ dlast.ret = 0
        /\ devfs_find_entry_path(fs_files, dlast.path) = 0
        /\ fs_nfiles = dlast.nfiles0 - 1

\* C21: devfs_unlink(path) of a regular node that a vfs_file has open fails
\* with -EACCES or -EBUSY.
UnlinkBusyIsRefused ==
    (dlast.op = "devfs_unlink" /\ dlast.reg0 /\ dlast.busy0) => dlast.ret \in {-EACCES, -EBUSY}

\* C22: devfs_unlink(path) of a path that names no node, and is neither "."
\* nor "..", returns -ENOENT; the kernel reads nothing through a null pointer
\* and fs.files and fs.nfiles are as before.
UnlinkMissingIsENOENT ==
    [][(dlast'.seq = dlast.seq + 1 /\ dlast'.op = "devfs_unlink"
           /\ ~dlast'.found0 /\ dlast'.path \notin {".", ".."}) =>
          /\ dlast'.ret = -ENOENT
          /\ dstatus' = "running"
          /\ fs_files' = fs_files /\ fs_nfiles' = fs_nfiles]_vars

\* The parent path of devfs_open passes its test: it is "." or "/", or it
\* names a directory.
ParentIsDirectory(path) ==
    \/ dirname(path) \in {".", "/"}
    \/ \E i \in 1 .. Len(fs_files) : fs_files[i].name = dirname(path) /\ type_check(fs_files[i].flags, DT_DIR)

\* devfs_open was called with O_CREAT and O_EXCL on a path that named a node.
OpenedExclOnExisting ==
    /\ dlast'.seq = dlast.seq + 1 /\ dlast'.op = "devfs_open"
    /\ {O_CREAT, O_EXCL} \subseteq dlast'.flags /\ dlast'.found0

\* C23 as stated: devfs_open with O_CREAT and O_EXCL on a path that names a
\* node returns NULL with errno = EEXIST, allocates no vfs_file and changes
\* neither fs.files nor a list of open files.
ExclOnExistingIsEEXIST ==
    [][OpenedExclOnExisting =>
          (dlast'.ret = 0 /\ errno' = EEXIST /\ vfs' = vfs /\ fs_files' = fs_files /\ fs_nfiles' = fs_nfiles)]_vars

\* C23, amended: the same when the parent path of the node passes the test
\* that devfs_open makes first; when it does not, the call still returns NULL
\* and changes nothing, with errno = ENOENT or ENOTDIR.
ExclOnExistingUnderDirectory ==
    [][OpenedExclOnExisting =>
          /\ dlast'.ret = 0 /\ vfs' = vfs /\ fs_files' = fs_files /\ fs_nfiles' = fs_nfiles
          /\ ParentIsDirectory(dlast'.path) => errno' = EEXIST
          /\ ~ParentIsDirectory(dlast'.path) => errno' \in {ENOENT, ENOTDIR}]_vars

\* C23, reached: O_CREAT | O_EXCL on a node under the root directory failed
\* with EEXIST.
ExclOnExistingReached ==
    /\ dlast.op = "devfs_open" /\ dlast.flags = {O_CREAT, O_EXCL} /\ dlast.found0
    /\ dlast.path = "/dev/a" /\ dlast.ret = 0 /\ errno = EEXIST

\* C24: devfs_open of an existing directory with O_WRONLY or O_RDWR returns
\* NULL with errno = EISDIR whatever the other flags are, O_DIRECTORY or not;
\* devfs_open with O_DIRECTORY of an existing node that is not a directory
\* returns NULL with errno = ENOTDIR.
DirectoryOpenedForWritingIsEISDIR ==
    (dlast.op = "devfs_open" /\ dlast.found0) =>
        /\ (~dlast.reg0 /\ dlast.flags \cap {O_WRONLY, O_RDWR} # {}) => (dlast.ret = 0 /\ errno = EISDIR)
        /\ (dlast.reg0 /\ dlast.flags = {O_DIRECTORY}) => (dlast.ret = 0 /\ errno = ENOTDIR)

\* A caller reads a directory: it calls devfs_getdents with a buffer of count
\* bytes and the sum of the values returned so far as the offset, until a call
\* returns no record. names: the records that arrived in its buffer, in
\* order; overrun: a call wrote more than count bytes from dirp on.
RECURSIVE ReadDir(_, _, _, _, _)
ReadDir(files, ino, count, doff, fuel) ==
    LET r == devfs_getdents(files, ino, doff, count)
        fit == IF Len(r.dirents) <= count \div sizeof_dirent_t THEN Len(r.dirents) ELSE count \div sizeof_dirent_t
        Then(rest) == [names |-> SubSeq(r.dirents, 1, fit) \o rest.names,
                       overrun |-> r.ret > count \/ rest.overrun]
    IN  IF fuel = 0 \/ r.ret <= 0 THEN [names |-> <<>>, overrun |-> FALSE]
        ELSE Then(ReadDir(files, ino, count, doff + r.ret, fuel - 1))

\* The names of the nodes whose parent directory is the node at position k.
ChildrenOf(files, k) ==
    {files[i].name : i \in {j \in 1 .. Len(files) : j # k /\ dirname(files[j].name) = files[k].name}}

\* C25: for a directory D, successive devfs_getdents calls, each with the
\* bytes returned so far as its offset and a count of at least one record,
\* together return one record for every node whose parent directory is D and
\* no other record, none of them twice.
GetdentsEnumeratesChildren ==
    \A k \in 1 .. Len(fs_files), count \in Counts :
        type_check(fs_files[k].flags, DT_DIR) =>
            LET Read(d) ==
                    /\ ~d.overrun
                    /\ {d.names[i] : i \in 1 .. Len(d.names)} = ChildrenOf(fs_files, k)
                    /\ \A i, j \in 1 .. Len(d.names) : d.names[i] = d.names[j] => i = j
            IN  Read(ReadDir(fs_files, fs_files[k].inode, count, 0, Len(fs_files) + 1))

\* C27: devfs_read, devfs_write, devfs_lseek and devfs_ioctl on an open
\* vfs_file whose node has no table of driver operations, or a table without
\* that operation, return -ENOSYS and call no driver function.
AbsentFileOpIsENOSYS ==
    (dlast.op \in FileOps /\ ~dlast.hasop) => (dlast.ret = -ENOSYS /\ ~dlast.driver)

\* What devfs_destroy_entry(name) returns and does in the three cases.
DestroyEntryCases ==
    dlast'.op = "devfs_destroy_entry" =>
        /\ ~dlast'.found0 => (dlast'.ret = -ENOENT /\ fs_files' = fs_files)
        /\ (dlast'.found0 /\ dlast'.busy0) => (dlast'.ret = -EBUSY /\ fs_files' = fs_files)
        /\ (dlast'.found0 /\ ~dlast'.busy0) =>
               /\ dlast'.ret = 0
               /\ devfs_find_entry_path(fs_files', dlast'.path) = 0
               /\ fs_nfiles' = fs_nfiles - 1

\* devfs_open without O_CREAT of a name that devfs_destroy_entry removed and
\* nobody has created again.
OpenedDestroyedName ==
    dlast'.op = "devfs_open" /\ dlast'.path \in dlast.gone /\ O_CREAT \notin dlast'.flags

\* C26 as stated: devfs_destroy_entry(name) returns -ENOENT when no node has
\* the name, -EBUSY with the node left in place while a vfs_file is open on
\* it, and otherwise removes the node and returns 0; from then until the name
\* is created again devfs_open(name) without O_CREAT returns NULL with
\* errno = ENOENT.
DestroyedNameIsENOENT ==
    [][dlast'.seq = dlast.seq + 1 =>
          /\ DestroyEntryCases
          /\ OpenedDestroyedName => (dlast'.ret = 0 /\ errno' = ENOENT)]_vars

\* C26, amended: the same, with errno = ENOTDIR instead of ENOENT when the
\* parent path of the name is that of a node that is not a directory.
DestroyedNameCannotBeOpened ==
    [][dlast'.seq = dlast.seq + 1 =>
          /\ DestroyEntryCases
          /\ OpenedDestroyedName =>
                 /\ dlast'.ret = 0 /\ vfs' = vfs /\ fs_files' = fs_files
                 /\ errno' = IF IsRegular(dirname(dlast'.path)) THEN ENOTDIR ELSE ENOENT]_vars

\* C26, reached: a name was destroyed and its next open failed with ENOENT.
DestroyedNameOpenReached ==
    /\ dlast.op = "devfs_open" /\ dlast.path \in dlast.gone /\ O_CREAT \notin dlast.flags
    /\ dlast.ret = 0 /\ errno = ENOENT

\* ------------------------------------------- the namespace at its capacity
\* The state after mount and so many devfs_create_entry calls by drivers that
\* `spare` inodes are left: node i has inode i.
SpareInodes == {0, 1}
FullName(i) == IF i = 1 THEN "/dev" ELSE "/dev/n" \o ToString(i)
DevfsFullBoot(spare) ==
    /\ fs_files = [i \in 1 .. (DEVFS_MAX_FILES - 1 - spare) |->
                      [name |-> FullName(i), inode |-> i, flags |-> IF i = 1 THEN DT_DIR ELSE DT_REG,
                       files |-> IF i = 1 THEN <<1>> ELSE <<>>, fs_operations |-> NullOps]]
    /\ fs_nfiles = DEVFS_MAX_FILES - 1 - spare
    /\ vfs = [i \in VfsIds |-> IF i = 1 THEN [used |-> TRUE, name |-> "/dev", ino |-> 1] ELSE NoVfs]
    /\ errno = 0
    /\ dstatus = "running"
    /\ dlast = DLast("devfs_create_entry", FullName(DEVFS_MAX_FILES - 1 - spare), 1, FALSE, FALSE, DEVFS_MAX_FILES - 2 - spare)

DevfsFullInit == PagingIdle /\ SyscallBoot /\ \E spare \in SpareInodes : DevfsFullBoot(spare)

DevfsFullNext ==
    \/ \E path \in {"/dev/a", "/dev/b"}, flags \in {{}, {O_CREAT}} : DevfsOpen(path, flags)
    \/ \E id \in VfsIds : DevfsClose(id)
    \/ \E name \in EntryNames, ops \in DriverTables : DevfsCreateEntry(name, ops)
    \/ \E name \in EntryNames : DevfsDestroyEntry(name)

DevfsFullSpec == DevfsFullInit /\ [][DevfsFullNext]_vars

\* C28: every node of fs.files has an inode of at least 1 that no other node
\* has, also once DEVFS_MAX_FILES - 1 nodes exist and one more is created.
InodesPositiveAndUnique ==
    /\ \A i \in 1 .. Len(fs_files) : fs_files[i].inode >= 1
    /\ Cardinality({fs_files[i].inode : i \in 1 .. Len(fs_files)}) = Len(fs_files)

\* ------------------------------------------------ paging, further properties
\* The pages of the area of s that a clone_vm_area step has just cloned.
ClonedPages ==
    UNION {IterPages(mm[last'.ret].mmap_list[i].vm_start,
                     mm[last'.ret].mmap_list[i].vm_end - mm[last'.ret].mmap_list[i].vm_start) :
              i \in {j \in 1 .. Len(mm[last'.ret].mmap_list) : mm[last'.ret].mmap_list[j].vm_start = last'.a}}

\* C29: right after clone_vm_area(dst_mm, area, cow = 1), for a page whose
\* source entry was present the source and destination entries name the same
\* frame and both are present, read-only and COW-marked; for a page whose
\* source entry was COW-marked and not present the source entry is still not
\* present and the destination entry is not present and holds the address of
\* the source entry.
CowCloneEntries ==
    [][(nops' = nops + 1 /\ last'.op = "clone_vm_area" /\ last'.n = 1 /\ last'.out = "ok") =>
          \A v \in ClonedPages :
              LET src0 == pte[last'.ret][v]
                  src == pte'[last'.ret][v]
                  dst == pte'[last'.m][v]
                  Shared(e) == Get(e, "present") = 1 /\ Get(e, "rw") = 0 /\ Get(e, "kernel_cow") = 1
              IN  /\ Get(src0, "present") = 1 => (src.frame = dst.frame /\ Shared(src) /\ Shared(dst))
                  /\ (Get(src0, "present") = 0 /\ Get(src0, "kernel_cow") = 1) =>
                         /\ Get(src, "present") = 0
                         /\ dst = Set(EntryPtr(last'.ret, v), "present", 0)]_vars

\* ---------------------------------------------------- mem_upd_vm_area alone
\* The arguments mem_upd_vm_area is applied to: ranges that start in the last
\* entry of one page table or the first of the next, and the flags of its
\* callers.
UpdStarts == {HintBase - PAGE_SIZE, HintBase}
UpdSizes == {PAGE_SIZE, 2 * PAGE_SIZE, 3 * PAGE_SIZE}
UpdPhys == {2 * PAGE_SIZE}
UpdFlags ==
    {{MM_RW, MM_PRESENT, MM_UPDADDR, MM_USER}, {MM_COW, MM_PRESENT, MM_USER}, {MM_RW, MM_PRESENT, MM_USER}}

\* The pages of [virt_start, virt_start + size), by their numbers.
RangePages(virt_start, size) == PfnOf(virt_start) .. (PfnOf(virt_start) + (size \div PAGE_SIZE) - 1)

\* mem_upd_vm_area(mm->pgd, virt_start, phy_start, size, flags)
MemUpdVmArea(m, virt_start, phy_start, size, flags) ==
    /\ Ready
    /\ mm[m].live
    /\ RangePages(virt_start, size) \subseteq VPages
    /\ LET Done(K) == Commit(K, cur, [Last("mem_upd_vm_area", m, virt_start, size, phy_start, Outcome(K))
                                         EXCEPT !.flags = flags],
                             shadow, cowed)
       IN  Done(mem_upd_vm_area(KState, m, virt_start, phy_start, size, flags))

UpdNext ==
    \E m \in MMIds, a \in UpdStarts, p \in UpdPhys, n \in UpdSizes, fl \in UpdFlags : MemUpdVmArea(m, a, p, n, fl)

UpdSpec == Init /\ [][UpdNext]_vars

\* The step is a call of mem_upd_vm_area.
UpdStep == nops' = nops + 1 /\ last'.op = "mem_upd_vm_area"

\* The flag bits of an entry are those asked for.
FlagsAre(e, flags) ==
    /\ Get(e, "present") = B(flags, MM_PRESENT) /\ Get(e, "rw") = B(flags, MM_RW)
    /\ Get(e, "user") = B(flags, MM_USER) /\ Get(e, "global") = B(flags, MM_GLOBAL)
    /\ Get(e, "kernel_cow") = B(flags, MM_COW)

\* An entry with its present, rw, user, global and cow bits cleared.
WithoutFlags(e) == Set(Set(Set(Set(Set(e, "present", 0), "rw", 0), "user", 0), "global", 0), "kernel_cow", 0)

\* With MM_UPDADDR the i-th page of the range is mapped to frame
\* phy_start / PAGE_SIZE + i; entries outside the range are as before.
UpdFramesAndOutside ==
    /\ MM_UPDADDR \in last'.flags =>
           \A v \in RangePages(last'.a, last'.n) :
               /\ pte'[last'.m][v].frame = PfnOf(last'.ret) + (v - PfnOf(last'.a))
               /\ FlagsAre(pte'[last'.m][v], last'.flags)
    /\ \A m \in MMIds, v \in VPages :
           (m # last'.m \/ v \notin RangePages(last'.a, last'.n)) => pte'[m][v] = pte[m][v]

\* C30 as stated: mem_upd_vm_area with MM_UPDADDR maps the i-th page of the
\* range to frame phy_start / PAGE_SIZE + i, also across page-table
\* boundaries; without MM_UPDADDR it leaves the frame of every entry of the
\* range and rewrites only the present, rw, user, global and cow bits; it
\* modifies no entry outside the range.
UpdRewritesOnlyFlagBits ==
    [][UpdStep =>
          /\ UpdFramesAndOutside
          /\ MM_UPDADDR \notin last'.flags =>
                 \A v \in RangePages(last'.a, last'.n) :
                     /\ FlagsAre(pte'[last'.m][v], last'.flags)
                     /\ WithoutFlags(pte'[last'.m][v]) = WithoutFlags(pte[last'.m][v])]_vars

\* C30, amended: the same, except that the two-bit field `available` of
\* every entry of the range is set to 1 as well.
UpdRewritesFlagAndAvailableBits ==
    [][UpdStep =>
          /\ UpdFramesAndOutside
          /\ \A v \in RangePages(last'.a, last'.n) : Get(pte'[last'.m][v], "available") = 1
          /\ MM_UPDADDR \notin last'.flags =>
                 \A v \in RangePages(last'.a, last'.n) :
                     /\ FlagsAre(pte'[last'.m][v], last'.flags)
                     /\ SetAvailable(WithoutFlags(pte'[last'.m][v]), 0) = SetAvailable(WithoutFlags(pte[last'.m][v]), 0)]_vars

\* C30, reached: a range over the boundary between two page tables was
\* mapped with MM_UPDADDR, and its second page got the second frame.
UpdAcrossTablesReached ==
    /\ last.op = "mem_upd_vm_area" /\ last.out = "ok" /\ MM_UPDADDR \in last.flags
    /\ last.a = HintBase - PAGE_SIZE /\ last.n = 3 * PAGE_SIZE
    /\ PdiOf(PfnOf(last.a)) # PdiOf(PfnOf(last.a) + 1)
    /\ pte[last.m][PfnOf(last.a) + 1].frame = PfnOf(last.ret) + 1

\* sys_mmap did not take the hint: it had none, or is_valid_vm_area refused it.
MmapSearched ==
    /\ nops' = nops + 1 /\ last'.op = "sys_mmap"
    /\ (last'.a = 0 \/ is_valid_vm_area(mm[last'.m].mmap_list, last'.a, U32(last'.a + last'.n)) = 0)

\* The range lies in the gap between two neighbours of the list.
InsideGap(list, start, length) ==
    \E i \in 2 .. Len(list) : list[i - 1].vm_end <= start /\ start + length <= list[i].vm_start

\* C31: when sys_mmap does not use the hint and find_free_vm_area succeeds,
\* the range returned lies inside a gap between two neighbouring areas of the
\* list and meets no area, and create_vm_area does not panic; when
\* find_free_vm_area finds no gap, sys_mmap returns NULL and creates no area.
MmapSearchFindsGap ==
    [][MmapSearched =>
          LET list == mm[last'.m].mmap_list
              gap == find_free_vm_area(list, last'.n)
          IN  IF gap.ret = 0
              THEN /\ last'.ret = gap.vm_start
                   /\ InsideGap(list, gap.vm_start, last'.n)
                   /\ \A i \in 1 .. Len(list) : Disjoint(list[i], gap.vm_start, gap.vm_start + last'.n)
                   /\ last'.out # "panic"
              ELSE /\ last'.ret = 0
                   /\ mm'[last'.m] = mm[last'.m]]_vars

\* ------------------------------------------------- devfs, further properties
\* C32: devfs_getdents on an open file writes at most count bytes from dirp on
\* and returns no more than count, for every count of at least one record,
\* multiple of the record size or not.
GetdentsStaysInBuffer ==
    \A id \in VfsIds, doff \in Offsets, count \in Counts :
        vfs[id].used =>
            LET InBuffer(r) == r.ret <= count /\ Len(r.dirents) * sizeof_dirent_t <= count
            IN  InBuffer(devfs_getdents(fs_files, vfs[id].ino, doff, count))


\* --------------------------------- destroy_process_image, iteration by iteration
\* The kernel state after a step inside destroy_process_image.
DpiCommit(K, c, d, l) ==
    /\ mm' = K.mm
    /\ pde' = K.pde
    /\ pte' = K.pte
    /\ frames' = K.frames
    /\ wild' = K.wild
    /\ cur' = c
    /\ dpi' = d
    /\ last' = l
    /\ UNCHANGED <<status, tlb, shadow, cowed, syscallVars, devfsVars>>

\* destroy_process_image(mm) up to its loop: the directory is switched, `it` is
\* the first element of the list.
DpiEnter(m) ==
    /\ Ready
    /\ dpi.pc # "loop"
    /\ mm[m].live
    /\ nops' = nops + 1
    /\ DpiCommit(KState, destroy_switch_directory(cur, m),
                 [DpiIdle EXCEPT !.pc = "loop", !.m = m, !.n0 = Len(mm[m].mmap_list)],
                 Last("destroy_process_image", m, 0, 0, 0, "ok"))

\* One iteration of the loop: `it` is not the head, destroy_vm_area(mm, segment).
DpiDestroyArea ==
    /\ dpi.pc = "loop"
    /\ mm[dpi.m].mmap_list # <<>>
    /\ UNCHANGED nops
    /\ \E junk \in Junk :
           DpiCommit(destroy_vm_area(KState, dpi.m, 1, junk), cur, [dpi EXCEPT !.calls = @ + 1], last)

\* The loop is left, the page tables, the directory and the mm_struct are freed.
DpiFinish ==
    /\ dpi.pc = "loop"
    /\ mm[dpi.m].mmap_list = <<>>
    /\ UNCHANGED nops
    /\ DpiCommit([KState EXCEPT !.mm[dpi.m] = BlankMM,
                                !.pde[dpi.m] = [d \in Pdis |-> ZeroPde],
                                !.pte[dpi.m] = [v \in VPages |-> ZeroPte]],
                 cur,
                 [dpi EXCEPT !.pc = "done",
                             !.exit_len = Len(mm[dpi.m].mmap_list),
                             !.exit_count = mm[dpi.m].map_count],
                 last)

DestroyNext ==
    \/ \E m \in MMIds : DpiEnter(m)
    \/ DpiDestroyArea
    \/ DpiFinish
    \/ dpi.pc # "loop" /\ \E c \in MMIds, a \in {0} \cup HintAddrs, n \in Sizes : SysMmap(c, a, n)
    \/ dpi.pc # "loop" /\ \E c \in MMIds, a \in HintAddrs \cup {PROCAREA_END_ADDR - ss : ss \in StackSizes}, n \in Lengths, j \in Junk : SysMunmap(c, a, n, j)

\* The kernel is not preempted inside destroy_process_image: its loop goes on.
DestroySpec == Init /\ [][DestroyNext]_vars /\ WF_vars(DpiDestroyArea) /\ WF_vars(DpiFinish)

\* The step is one call of destroy_vm_area from the loop of destroy_process_image.
DpiAreaStep == dpi.pc = "loop" /\ dpi'.pc = "loop" /\ dpi'.calls = dpi.calls + 1

\* The step is a sys_munmap that found its area.
MunmapStep == nops' = nops + 1 /\ last'.op = "sys_munmap" /\ last'.ret = 0

\* The area at position k left the list of m, and nothing else changed in any list.
OnlyAreaLeft(m, k) ==
    /\ mm'[m].mmap_list = list_head_remove(mm[m].mmap_list, k)
    /\ mm'[m].map_count = mm[m].map_count - 1
    /\ \A o \in MMIds \ {m} : mm'[o] = mm[o]

\* C33: destroy_process_image ends, for a list of any length, after one call of
\* destroy_vm_area for each area that was in the list, with the list empty and
\* map_count = 0; each call of destroy_vm_area, from the loop or from sys_munmap,
\* unlinks its own area, takes one from map_count and leaves every other area
\* as it was.
DestroyImageTerminates ==
    /\ [][/\ DpiAreaStep => OnlyAreaLeft(dpi.m, 1)
          /\ MunmapStep => \E k \in 1 .. Len(mm[last'.m].mmap_list) :
                               /\ mm[last'.m].mmap_list[k].vm_start = last'.a
                               /\ OnlyAreaLeft(last'.m, k)]_vars
    /\ [](dpi.pc = "done" => dpi.calls = dpi.n0 /\ dpi.exit_len = 0 /\ dpi.exit_count = 0)
    /\ (dpi.pc = "loop") ~> (dpi.pc = "done")

\* destroy_process_image returned for an address space of several areas.
DestroyedSeveralAreas == dpi.pc = "done" /\ dpi.n0 >= 2


\* ------------------------------------------------ frames of destroyed areas
\* The step is a sys_munmap or a destroy_process_image: destroy_vm_area ran.
DestroyStep == nops' = nops + 1 /\ last'.op \in {"sys_munmap", "destroy_process_image"}

\* The live address spaces that map frame f through a present entry.
Mappers(f) == {m \in MMIds : mm[m].live /\ f \in BackedFrames(m)}

\* C34: destroy_vm_area, reached through sys_munmap or destroy_process_image,
\* returns no frame to the page-frame allocator that a present entry of another
\* live address space still references, and the reference count of a frame
\* that two address spaces map is never less than the number of address spaces
\* that map it.
SharedFramesStayAllocated ==
    /\ [][DestroyStep =>
             \A f \in FreeFrames' \ FreeFrames : Mappers(f) \ {last'.m} = {}]_vars
    /\ [](\A f \in Frames :
             Cardinality(Mappers(f)) >= 2 => frames[f].count >= Cardinality(Mappers(f)))


\* C35: destroy_vm_area frees or decrements only frames that back a present
\* page of the area it destroys; for a page that was never materialized no
\* frame goes back to the page-frame allocator, no reference count changes and
\* no descriptor outside the area's frames is touched.
DestroyTouchesOnlyBackingFrames ==
    [][MunmapStep =>
          LET backing == {pte[last'.m][v].frame :
                             v \in {w \in IterPages(last'.a, last'.n) : Get(pte[last'.m][w], "present") = 1}}
          IN  /\ \A f \in Frames : frames'[f] # frames[f] => f \in backing
              /\ wild' = wild]_vars


\* C36: mm->mmap_cache of a live address space is null or points to an area
\* that is linked in the list of that address space.
MmapCacheIsLinked ==
    \A m \in MMIds :
        mm[m].live =>
            \/ mm[m].mmap_cache = 0
            \/ \E i \in 1 .. Len(mm[m].mmap_list) : mm[m].mmap_list[i].id = mm[m].mmap_cache


\* C37: a page fault that ends in SIGSEGV or in a kernel panic leaves the
\* faulting page-table entry as it was when the fault was raised; its COW
\* marker is not cleared.
UnresolvedFaultLeavesEntry ==
    (last.op = "page_fault" /\ last.out \in {"sigsegv", "panic"}) =>
        pte[last.m][last.a] = last.e0


\* --------------------------------------------------- devfs, failed opens
\* C38: a devfs_open that returns null leaves the namespace as it was: no node
\* was created, fs.nfiles and the list of open files of every node are as
\* before the call.
FailedOpenLeavesNamespace ==
    [][(dlast'.seq = dlast.seq + 1 /\ dlast'.op = "devfs_open" /\ dlast'.ret = 0) =>
          fs_files' = fs_files /\ fs_nfiles' = fs_nfiles]_vars


\* ------------------------------------------- system-call entry, empty slots
\* C39: for an index below SYSCALL_NUMBER that syscall_init gave no function,
\* syscall_handler makes no call through the null entry of the table, and the
\* eax of the frame is -ENOSYS.
UnassignedSlotIsENOSYS ==
    [][(Len(scheduled') = Len(scheduled) + 1 /\ sc_index' \in Unassigned) =>
          /\ \A i \in 1 .. Len(invoked') : ~invoked'[i].null
          /\ frame'.eax = -ENOSYS]_vars


\* ---------------------------------------------------- devfs, open handles
\* C40: every vfs_file that devfs_open or the mount gave out and that was not
\* closed has an ino that devfs_find_entry_inode resolves to a node of fs.files,
\* and that node is the one whose list of open files holds the vfs_file.
HandlesResolveToTheirNode ==
    \A id \in VfsIds :
        vfs[id].used =>
            LET k == devfs_find_entry_inode(fs_files, vfs[id].ino)
            IN  /\ k # 0
                /\ \E j \in 1 .. Len(fs_files[k].files) : fs_files[k].files[j] = id

====
